---- MODULE Spec2Model ----
(***************************************************************************)
(* Verification model of the oculus repository's operational scripts:      *)
(*   - cdk/checkawsresources.ts   (the resource inventory collector)       *)
(*   - cdk/scripts/deploy-infra.ts (creation pipeline, two revisions)      *)
(*   - cdk/scripts/delete-infra.ts and scripts/destroy.ts (deletion)       *)
(*   - scripts/deploy.ts          (one-shot deploy)                        *)
(* Strings are sequences of one-character strings so that trimming, case   *)
(* folding and substring search are computed, not assumed.                 *)
(***************************************************************************)
EXTENDS Integers, Sequences, FiniteSets, TLC

VARIABLES
    script,      \* which script this process is running
    pc,          \* position of the running script
    run,         \* 1 for the first invocation, 2 for an immediate second one
    previous,    \* <<summary of the first invocation>> during the second
    cloud,       \* ids of the resources that exist in the AWS account
    fault,       \* API faults injected into the stand-alone collector run
    snapshot,    \* <<value resolved by collectInventory>>, <<>> before
    cacheFile,   \* aws-inventory.json, a File record
    inventory,   \* <<the object loadInventory returned>>, <<>> for null
    publicIP,    \* outcome of getCurrentPublicIP ("unknown" before the call)
    gap,         \* <<existingResources, allResourcesExist, missing>>, <<>> before
    asked,       \* the prompt the operator has just answered ("none" otherwise)
    answer,      \* the line typed at that prompt, as typed
    prompted,    \* the confirmation gate was shown in this run
    confirmed,   \* the confirmation gate let the run proceed
    vpcStrategy, \* what askVPCPreference returned ("unset" before)
    context,     \* keys set in the CDK context
    synthI,      \* number of `cdk synth` attempts started (loop counter i)
    synthOk,     \* local synthOk
    seedI,       \* number of seed attempts started (deploy.ts)
    seeded,      \* local seeded (deploy.ts)
    log,         \* commands run through sh()/shCap()/run(), in order
    sleeps,      \* sleep(ms) calls, in order
    mutated,     \* `cdk deploy` / `cdk destroy` returned successfully
    exitCode,    \* process exit status, -1 while the script runs
    envFile,     \* <<content of the env file a generator writes>>, <<>> if absent
    envBackup,   \* <<content of its .backup sibling>>, <<>> if absent
    envContent,  \* <<local envContent of a generator>>, <<>> before
    pending,     \* kinds whose getter promise has been created and not settled
    settled,     \* kind -> value its getter promise resolved with (<<>> before)
    event,       \* <<the API Gateway event the Lambda handler was invoked with>>
    conn,        \* the handler's pg Client: "none", "open" or "ended"
    response,    \* <<what the Lambda handler returned>>, <<>> before
    proxyRequest,  \* <<the body posted to the Next.js route>>, <<>> if none
    proxyResponse, \* <<what the Next.js route returned>>, <<>> before
    database     \* the Postgres database: its tables and their rows

vars == <<script, pc, run, previous, cloud, fault, snapshot, cacheFile, inventory,
          publicIP, gap, asked, answer, prompted, confirmed, vpcStrategy, context, synthI,
          synthOk, seedI, seeded, log, sleeps, mutated, exitCode,
          envFile, envBackup, envContent, pending, settled,
          event, conn, response, proxyRequest, proxyResponse, database>>

\* written by the env-file generators alone
envVars == <<envFile, envBackup, envContent>>

\* written by the collector's Promise.all alone
fanVars == <<pending, settled>>

\* written by the Lambda handlers and the Next.js route alone
webVars == <<event, conn, response, proxyRequest, proxyResponse, database>>

----------------------------------------------------------------------------
(* Strings *)

UpperChars == <<"A", "B", "C", "D", "E", "F", "G", "H", "I", "J", "K", "L", "M", "N", "O", "P", "Q", "R", "S", "T", "U", "V", "W", "X", "Y", "Z">>
LowerChars == <<"a", "b", "c", "d", "e", "f", "g", "h", "i", "j", "k", "l", "m", "n", "o", "p", "q", "r", "s", "t", "u", "v", "w", "x", "y", "z">>
WhiteSpace == {" ", "\t"}

\* String.prototype.toLowerCase / toUpperCase on one character
toLowerChar(c) ==
    IF \E i \in 1..Len(UpperChars) : UpperChars[i] = c
    THEN LowerChars[CHOOSE i \in 1..Len(UpperChars) : UpperChars[i] = c]
    ELSE c

toUpperChar(c) ==
    IF \E i \in 1..Len(LowerChars) : LowerChars[i] = c
    THEN UpperChars[CHOOSE i \in 1..Len(LowerChars) : LowerChars[i] = c]
    ELSE c

toLowerCase(str) == [i \in 1..Len(str) |-> toLowerChar(str[i])]
toUpperCase(str) == [i \in 1..Len(str) |-> toUpperChar(str[i])]

\* String.prototype.includes
includes(str, sub) ==
    \E i \in 1..(Len(str) - Len(sub) + 1) : SubSeq(str, i, i + Len(sub) - 1) = sub

\* String.prototype.trim: drop leading and trailing white space
RECURSIVE trimStart(_)
trimStart(str) ==
    IF str # <<>> /\ Head(str) \in WhiteSpace THEN trimStart(Tail(str)) ELSE str

RECURSIVE trimEnd(_)
trimEnd(str) ==
    IF str # <<>> /\ str[Len(str)] \in WhiteSpace
    THEN trimEnd(SubSeq(str, 1, Len(str) - 1))
    ELSE str

trim(str) == trimEnd(trimStart(str))

----------------------------------------------------------------------------
(* The AWS account: a universe of resource records, of which `cloud` holds *)
(* the ids (indices) that currently exist.                                 *)

Kinds == <<"vpcs", "subnets", "routeTables", "networkAcls", "natGateways",
           "ec2Instances", "rdsInstances", "rdsProxies", "lambdaFunctions",
           "apiGateways", "secrets", "s3Buckets", "cloudFrontDistributions">>

KindSet == {Kinds[i] : i \in 1..Len(Kinds)}

Tag(k, v) == [Key |-> k, Value |-> v]

K_Name    == <<"N", "a", "m", "e">>
K_project == <<"p", "r", "o", "j", "e", "c", "t">>
V_oculus  == <<"o", "c", "u", "l", "u", "s">>

\* kind, name (the kind's own name field: DBInstanceIdentifier, DBProxyName,
\* FunctionName, RestApi name, secret Name, bucket Name, distribution Comment),
\* ident (distribution Id), tags (Tags / TagList / TagSet), vpc (VpcId, 0 if
\* none), subnet (SubnetId, 0 if none), mapPublic (MapPublicIpOnLaunch)
Res(kind, name, ident, tags, vpc, subnet, mapPublic) ==
    [kind |-> kind, name |-> name, ident |-> ident, tags |-> tags,
     vpc |-> vpc, subnet |-> subnet, mapPublic |-> mapPublic]

StackTags(name) == <<Tag(K_Name, name), Tag(K_project, V_oculus)>>

Universe == <<
    \* 1..13: what `cdk deploy` of OculusDevStack creates (new-VPC mode)
    Res("vpcs", <<>>, <<>>, StackTags(<<"O", "c", "u", "l", "u", "s", "D", "e", "v", "_", "v", "p", "c">>), 0, 0, FALSE),
    Res("subnets", <<>>, <<>>, StackTags(<<"O", "c", "u", "l", "u", "s", "D", "e", "v", "_", "p", "u", "b", "l", "i", "c">>), 1, 0, TRUE),
    Res("subnets", <<>>, <<>>, StackTags(<<"O", "c", "u", "l", "u", "s", "D", "e", "v", "_", "p", "r", "i", "v", "a", "t", "e", "_", "i", "s", "o", "l", "a", "t", "e", "d">>), 1, 0, FALSE),
    Res("subnets", <<>>, <<>>, StackTags(<<"O", "c", "u", "l", "u", "s", "D", "e", "v", "_", "d", "b">>), 1, 0, FALSE),
    Res("routeTables", <<>>, <<>>, StackTags(<<"O", "c", "u", "l", "u", "s", "D", "e", "v", "_", "p", "u", "b", "l", "i", "c">>), 1, 0, FALSE),
    Res("networkAcls", <<>>, <<>>, <<>>, 1, 0, FALSE),
    Res("rdsInstances", <<"o", "c", "u", "l", "u", "s", "d", "e", "v", "s", "t", "a", "c", "k", "-", "p", "g">>, <<>>, StackTags(<<"O", "c", "u", "l", "u", "s", "D", "e", "v", "_", "p", "g", "_", "d", "a", "t", "a", "b", "a", "s", "e">>), 0, 0, FALSE),
    Res("rdsProxies", <<"o", "c", "u", "l", "u", "s", "d", "e", "v", "-", "p", "g", "p", "r", "o", "x", "y">>, <<>>, <<>>, 0, 0, FALSE),
    Res("lambdaFunctions", <<"O", "c", "u", "l", "u", "s", "D", "e", "v", "S", "t", "a", "c", "k", "-", "a", "p", "i", "-", "f", "n">>, <<>>, <<>>, 0, 0, FALSE),
    Res("apiGateways", <<"O", "c", "u", "l", "u", "s", "D", "e", "v", "_", "a", "p", "i">>, <<>>, <<>>, 0, 0, FALSE),
    Res("secrets", <<"O", "c", "u", "l", "u", "s", "D", "e", "v", "_", "d", "b", "_", "s", "e", "c", "r", "e", "t">>, <<>>, <<>>, 0, 0, FALSE),
    Res("s3Buckets", <<"o", "c", "u", "l", "u", "s", "d", "e", "v", "s", "t", "a", "c", "k", "-", "s", "i", "t", "e">>, <<>>, StackTags(<<"O", "c", "u", "l", "u", "s", "D", "e", "v", "_", "s", "i", "t", "e", "_", "b", "u", "c", "k", "e", "t">>), 0, 0, FALSE),
    Res("cloudFrontDistributions", <<>>, <<"E", "2", "A", "B">>, StackTags(<<"O", "c", "u", "l", "u", "s", "D", "e", "v", "_", "c", "l", "o", "u", "d", "f", "r", "o", "n", "t", "_", "d", "i", "s", "t", "r", "i", "b", "u", "t", "i", "o", "n">>), 0, 0, FALSE),
    \* 14..: resources that exist independently of the stack
    Res("vpcs", <<>>, <<>>, <<Tag(<<"P", "r", "o", "j", "e", "c", "t">>, <<"O", "C", "U", "L", "U", "S">>)>>, 0, 0, FALSE),
    Res("vpcs", <<>>, <<>>, <<Tag(K_Name, <<"d", "e", "f", "a", "u", "l", "t">>)>>, 0, 0, FALSE),
    Res("subnets", <<>>, <<>>, <<>>, 14, 0, FALSE),
    Res("subnets", <<>>, <<>>, <<Tag(K_Name, <<"s", "h", "a", "r", "e", "d">>)>>, 15, 0, TRUE),
    Res("natGateways", <<>>, <<>>, <<>>, 0, 16, FALSE),
    Res("ec2Instances", <<>>, <<>>, <<Tag(K_Name, <<"O", "c", "u", "l", "u", "s", "-", "B", "a", "s", "t", "i", "o", "n">>)>>, 0, 17, FALSE),
    Res("secrets", <<"p", "r", "o", "d", "-", "d", "b", "-", "p", "a", "s", "s", "w", "o", "r", "d">>, <<>>, <<>>, 0, 0, FALSE),
    Res("secrets", <<"p", "a", "y", "r", "o", "l", "l">>, <<>>, <<>>, 0, 0, FALSE),
    Res("s3Buckets", <<"l", "o", "g", "s">>, <<>>, <<Tag(<<"t", "e", "a", "m">>, V_oculus)>>, 0, 0, FALSE),
    Res("s3Buckets", <<"m", "e", "d", "i", "a">>, <<>>, <<>>, 0, 0, FALSE),
    Res("rdsInstances", <<"b", "i", "l", "l", "i", "n", "g">>, <<>>, <<Tag(<<"a", "p", "p">>, <<"O", "c", "u", "l", "u", "s">>)>>, 0, 0, FALSE),
    Res("rdsProxies", <<"b", "i", "l", "l", "i", "n", "g", "-", "p", "r", "o", "x", "y">>, <<>>, <<>>, 0, 0, FALSE),
    Res("cloudFrontDistributions", <<"m", "a", "r", "k", "e", "t", "i", "n", "g">>, <<"E", "1", "X", "Y">>, <<>>, 0, 0, FALSE),
    Res("subnets", <<>>, <<>>, <<>>, 14, 0, FALSE),
    Res("s3Buckets", <<"o", "c", "u", "l", "u", "s", "-", "a", "s", "s", "e", "t", "s">>, <<>>, <<>>, 0, 0, FALSE)
>>

Ids == 1..Len(Universe)
StackIds == 1..13
ForeignIds == Ids \ StackIds

----------------------------------------------------------------------------
(* cdk/checkawsresources.ts: class AWSResourceInventory                    *)

Marker == <<"o", "c", "u", "l", "u", "s">>

AllIds == [i \in Ids |-> i]

\* x is an element of the list s
InSeq(x, s) == \E i \in DOMAIN s : s[i] = x

\* What a list call of one kind returns: the existing resources of the kind
Listing(c, kind) == SelectSeq(AllIds, LAMBDA i : i \in c /\ Universe[i].kind = kind)

\* x.Tags?.find(tag => tag.Key === 'Name')?.Value || ''
NameTag(tags) ==
    IF \E i \in 1..Len(tags) : tags[i].Key = K_Name
    THEN tags[CHOOSE i \in 1..Len(tags) :
                /\ tags[i].Key = K_Name
                /\ \A j \in 1..(i - 1) : tags[j].Key # K_Name].Value
    ELSE <<>>

hasOculusTag(tags) ==
    \E i \in 1..Len(tags) :
        \/ includes(toLowerCase(tags[i].Key), Marker)
        \/ includes(toLowerCase(tags[i].Value), Marker)

hasOculusName(name) == includes(toLowerCase(name), Marker)

NameTagOf(r) == NameTag(Universe[r].tags)
NameOf(r) == Universe[r].name
TagsOf(r) == Universe[r].tags

\* The string tests below depend on the record alone, so each is evaluated
\* once per record of the universe and looked up afterwards.
NameTagMarked == {r \in Ids : includes(toLowerCase(NameTagOf(r)), Marker)}
NameMarked    == {r \in Ids : NameOf(r) # <<>> /\ hasOculusName(NameOf(r))}
IdentMarked   == {r \in Ids : Universe[r].ident # <<>> /\ hasOculusName(Universe[r].ident)}
TagMarked     == {r \in Ids : hasOculusTag(TagsOf(r))}

\* nameMarked: the records whose nameExtractor value passes hasOculusName
filterOculusResources(resources, nameMarked, tagMarked) ==
    SelectSeq(resources, LAMBDA r : r \in nameMarked \/ r \in tagMarked)

\* The resource's own Name tag or any of its tags carries the marker
selfMatches(r) == r \in NameTagMarked \/ r \in TagMarked

\* the VPC test as it would be on the Name tag alone
vpcMatchesByNameTagOnly(c, f, r, vpcId) ==
    /\ r \notin f.lookupFail
    /\ vpcId \in c
    /\ vpcId \in NameTagMarked

\* describeVpcs({ VpcIds: [id] }) issued for child r resolved with a VPC
\* whose Name tag or tags carry the marker; a throw is swallowed by the
\* inner try/catch and the child is skipped
vpcMatches(c, f, r, vpcId) ==
    /\ r \notin f.lookupFail
    /\ vpcId \in c
    /\ selfMatches(vpcId)

\* if (x.VpcId) { ... }
keepViaVpc(c, f, r) ==
    /\ Universe[r].vpc # 0
    /\ vpcMatches(c, f, r, Universe[r].vpc)

\* if (x.SubnetId) { describeSubnets({SubnetIds}); if (subnet && subnet.VpcId) ... }
keepViaSubnet(c, f, r) ==
    /\ Universe[r].subnet # 0
    /\ r \notin f.lookupFail
    /\ Universe[r].subnet \in c
    /\ Universe[Universe[r].subnet].vpc # 0
    /\ vpcMatches(c, f, r, Universe[Universe[r].subnet].vpc)

getVPCs(c, f) ==
    IF "vpcs" \in f.listFail THEN <<>>
    ELSE filterOculusResources(Listing(c, "vpcs"), NameTagMarked, TagMarked)

\* getSubnets as it would be if it shared the VPC list call and its failure
getSubnetsSharingVpcListing(c, f) ==
    IF "subnets" \in f.listFail \/ "vpcs" \in f.listFail THEN <<>>
    ELSE SelectSeq(Listing(c, "subnets"),
                   LAMBDA r : selfMatches(r) \/ keepViaVpc(c, f, r))

getSubnets(c, f) ==
    IF "subnets" \in f.listFail THEN <<>>
    ELSE SelectSeq(Listing(c, "subnets"),
                   LAMBDA r : selfMatches(r) \/ keepViaVpc(c, f, r))

getRouteTables(c, f) ==
    IF "routeTables" \in f.listFail THEN <<>>
    ELSE SelectSeq(Listing(c, "routeTables"),
                   LAMBDA r : selfMatches(r) \/ keepViaVpc(c, f, r))

getNetworkAcls(c, f) ==
    IF "networkAcls" \in f.listFail THEN <<>>
    ELSE SelectSeq(Listing(c, "networkAcls"),
                   LAMBDA r : selfMatches(r) \/ keepViaVpc(c, f, r))

getNatGateways(c, f) ==
    IF "natGateways" \in f.listFail THEN <<>>
    ELSE SelectSeq(Listing(c, "natGateways"),
                   LAMBDA r : selfMatches(r) \/ keepViaSubnet(c, f, r))

getEC2Instances(c, f) ==
    IF "ec2Instances" \in f.listFail THEN <<>>
    ELSE SelectSeq(Listing(c, "ec2Instances"),
                   LAMBDA r : selfMatches(r) \/ keepViaSubnet(c, f, r))

getRDSInstances(c, f) ==
    IF "rdsInstances" \in f.listFail THEN <<>>
    ELSE filterOculusResources(Listing(c, "rdsInstances"), NameMarked, TagMarked)

getRDSProxies(c, f) ==
    IF "rdsProxies" \in f.listFail THEN <<>>
    ELSE SelectSeq(Listing(c, "rdsProxies"),
                   LAMBDA r : r \in NameMarked)

getLambdaFunctions(c, f) ==
    IF "lambdaFunctions" \in f.listFail THEN <<>>
    ELSE SelectSeq(Listing(c, "lambdaFunctions"),
                   LAMBDA r : r \in NameMarked)

\* the per-API getStages lookup only decorates the record (hasProdDeployment);
\* its failure never drops the API
getAPIGateways(c, f) ==
    IF "apiGateways" \in f.listFail THEN <<>>
    ELSE SelectSeq(Listing(c, "apiGateways"),
                   LAMBDA r : r \in NameMarked)

secretNameMatches(lowerName) ==
    \/ includes(lowerName, Marker)
    \/ includes(lowerName, <<"d", "b">>)
    \/ includes(lowerName, <<"d", "a", "t", "a", "b", "a", "s", "e">>)
    \/ includes(lowerName, <<"s", "e", "c", "r", "e", "t">>)

SecretNameMatching == {r \in Ids : secretNameMatches(toLowerCase(NameOf(r)))}

getSecrets(c, f) ==
    IF "secrets" \in f.listFail THEN <<>>
    ELSE SelectSeq(Listing(c, "secrets"), LAMBDA r : r \in SecretNameMatching)

\* getBucketTagging rejects when the call is denied and when the bucket has no
\* tag set (NoSuchTagSet); either way the bucket is skipped
bucketTagsMatch(f, r) ==
    /\ r \notin f.lookupFail
    /\ TagsOf(r) # <<>>
    /\ r \in TagMarked

\* getS3Buckets as it would be if a failed tag lookup reached the outer catch
getS3BucketsFailingWhole(c, f) ==
    IF "s3Buckets" \in f.listFail THEN <<>>
    ELSE IF \E r \in c : /\ Universe[r].kind = "s3Buckets"
                         /\ r \notin NameMarked
                         /\ r \in f.lookupFail
    THEN <<>>
    ELSE SelectSeq(Listing(c, "s3Buckets"),
                   LAMBDA r : r \in NameMarked \/ bucketTagsMatch(f, r))

getS3Buckets(c, f) ==
    IF "s3Buckets" \in f.listFail THEN <<>>
    ELSE SelectSeq(Listing(c, "s3Buckets"),
                   LAMBDA r : r \in NameMarked \/ bucketTagsMatch(f, r))

getCloudFrontDistributions(c, f) ==
    IF "cloudFrontDistributions" \in f.listFail THEN <<>>
    ELSE SelectSeq(Listing(c, "cloudFrontDistributions"),
                   LAMBDA r : \/ r \in NameMarked
                              \/ r \in IdentMarked
                              \/ (r \notin f.lookupFail /\ r \in TagMarked))

\* Promise.all over the thirteen getters, each of which resolves (its own
\* try/catch turns a rejected list call into [])
collectInventory(c, f) ==
    [k \in KindSet |->
        CASE k = "vpcs"                     -> getVPCs(c, f)
          [] k = "subnets"                  -> getSubnets(c, f)
          [] k = "routeTables"              -> getRouteTables(c, f)
          [] k = "networkAcls"              -> getNetworkAcls(c, f)
          [] k = "natGateways"              -> getNatGateways(c, f)
          [] k = "ec2Instances"             -> getEC2Instances(c, f)
          [] k = "rdsInstances"             -> getRDSInstances(c, f)
          [] k = "rdsProxies"               -> getRDSProxies(c, f)
          [] k = "lambdaFunctions"          -> getLambdaFunctions(c, f)
          [] k = "apiGateways"              -> getAPIGateways(c, f)
          [] k = "secrets"                  -> getSecrets(c, f)
          [] k = "s3Buckets"                -> getS3Buckets(c, f)
          [] k = "cloudFrontDistributions"  -> getCloudFrontDistributions(c, f)]

NoFault == [listFail |-> {}, lookupFail |-> {}, writeFail |-> FALSE]

EmptyInventory == [k \in KindSet |-> <<>>]

\* Content of aws-inventory.json. state: "absent" (no file), "corrupt" (not
\* JSON) or "json"; ip: the developerPublicIP and lastIPUpdate fields are set
File(state, inv, ip) == [state |-> state, inventory |-> inv, ip |-> ip]

Absent == File("absent", EmptyInventory, FALSE)
Corrupt == File("corrupt", EmptyInventory, FALSE)

\* fs.writeFileSync(outputPath, JSON.stringify(resources, null, 2)): the file
\* holds the snapshot and nothing else
CacheOf(snap) == File("json", snap, FALSE)

----------------------------------------------------------------------------
(* Bounds and the inputs drawn from them *)

\* how many resources that are not the stack's the account holds at most
MaxForeign == 3

\* a real account holds no child whose VPC or subnet does not exist
ParentClosed(c) ==
    \A r \in c :
        /\ Universe[r].vpc # 0 => Universe[r].vpc \in c
        /\ Universe[r].subnet # 0 =>
              /\ Universe[r].subnet \in c
              /\ Universe[Universe[r].subnet].vpc \in c

Clouds ==
    {S \cup F : S \in {{}, StackIds},
                F \in {G \in SUBSET ForeignIds : Cardinality(G) <= MaxForeign /\ ParentClosed(G)}}

\* ids whose getter issues a per-resource lookup that can throw
LookupIds ==
    {r \in Ids : Universe[r].kind \in {"subnets", "routeTables", "networkAcls",
                                       "natGateways", "ec2Instances", "s3Buckets",
                                       "cloudFrontDistributions"}}

\* at most one list call and at most one per-resource lookup throw in a run,
\* and the write of the cache file may fail
Faults(c) ==
    {[listFail |-> L, lookupFail |-> P, writeFail |-> w] :
        L \in {{}} \cup {{k} : k \in KindSet},
        P \in {{}} \cup {{r} : r \in c \cap LookupIds},
        w \in BOOLEAN}

----------------------------------------------------------------------------
(* cdk/checkawsresources.ts: main(), run on its own *)

pipelineVars == <<run, previous, inventory, publicIP, gap, asked, answer, prompted, confirmed,
                  vpcStrategy, context, synthI, synthOk, seedI, seeded, log, sleeps,
                  mutated, envVars, fanVars, webVars>>

\* the locals of a script before its main() starts
FreshRun ==
    /\ inventory = <<>>
    /\ publicIP = "unknown"
    /\ gap = <<>>
    /\ asked = "none"
    /\ answer = <<>>
    /\ prompted = FALSE
    /\ confirmed = FALSE
    /\ vpcStrategy = "unset"
    /\ synthI = 0
    /\ synthOk = FALSE
    /\ seedI = 0
    /\ seeded = FALSE
    /\ log = <<>>
    /\ sleeps = <<>>
    /\ mutated = FALSE
    /\ exitCode = -1
    /\ envContent = <<>>

\* no env file has been generated
NoEnvFiles == envFile = <<>> /\ envBackup = <<>>

\* no getter promise exists
NoPromises == pending = {} /\ settled = [k \in KindSet |-> <<>>]

EmptyDatabase == [tables |-> {}, rows |-> {}]

\* no request is being handled
NoRequests ==
    /\ event = <<>> /\ conn = "none" /\ response = <<>>
    /\ proxyRequest = <<>> /\ proxyResponse = <<>>
    /\ database = EmptyDatabase

InitCollector ==
    /\ script = "checkawsresources"
    /\ pc = "c_collect"
    /\ cloud \in Clouds
    /\ fault \in Faults(cloud)
    /\ snapshot = <<>>
    /\ cacheFile = Absent
    /\ run = 1
    /\ previous = <<>>
    /\ context = {}
    /\ NoEnvFiles
    /\ NoPromises
    /\ NoRequests
    /\ FreshRun

\* const resources = await inventory.collectInventory();
CollectInventory ==
    /\ script = "checkawsresources" /\ pc = "c_collect"
    /\ snapshot' = <<collectInventory(cloud, fault)>>
    /\ pc' = "c_print"
    /\ UNCHANGED <<script, cloud, fault, cacheFile, exitCode, pipelineVars>>

\* inventory.printInventory(resources): console output only
PrintInventory ==
    /\ script = "checkawsresources" /\ pc = "c_print"
    /\ pc' = "c_write"
    /\ UNCHANGED <<script, cloud, fault, snapshot, cacheFile, exitCode, pipelineVars>>

\* fs.writeFileSync(outputPath, ...), or the catch: process.exit(1)
WriteCache ==
    /\ script = "checkawsresources" /\ pc = "c_write"
    /\ IF fault.writeFail
       THEN /\ exitCode' = 1
            /\ UNCHANGED cacheFile
       ELSE /\ cacheFile' = CacheOf(snapshot[1])
            /\ exitCode' = 0
    /\ pc' = "done"
    /\ UNCHANGED <<script, cloud, fault, snapshot, pipelineVars>>

NextCollector == CollectInventory \/ PrintInventory \/ WriteCache

SpecCollector == InitCollector /\ [][NextCollector]_vars

----------------------------------------------------------------------------
(* cdk/checkawsresources.ts: collectInventory() with its thirteen getter
   promises settling one at a time, in any order *)

\* the accounts and faults the interleavings are explored for
FanClouds == {StackIds, StackIds \cup {14, 16, 27}, {15, 17, 19}}

FanFaults(c) ==
    {NoFault,
     [listFail |-> {"vpcs"}, lookupFail |-> {}, writeFail |-> FALSE],
     [listFail |-> {}, lookupFail |-> {}, writeFail |-> TRUE]}
    \cup {[listFail |-> {}, lookupFail |-> {r}, writeFail |-> FALSE] : r \in c \cap {16}}

InitFanOut ==
    /\ script = "checkawsresources"
    /\ pc = "c_collect"
    /\ cloud \in FanClouds
    /\ fault \in FanFaults(cloud)
    /\ snapshot = <<>>
    /\ cacheFile = Absent
    /\ run = 1
    /\ previous = <<>>
    /\ context = {}
    /\ NoEnvFiles
    /\ NoPromises
    /\ NoRequests
    /\ FreshRun

\* left alone by collectInventory()
fanFrame == <<script, cloud, fault, cacheFile, exitCode, run, previous, inventory, publicIP,
              gap, asked, answer, prompted, confirmed, vpcStrategy, context, synthI, synthOk,
              seedI, seeded, log, sleeps, mutated, envVars, webVars>>

\* the array literal handed to Promise.all: the thirteen getters are called
\* one after the other, each returning a pending promise at its first await
IssueCalls ==
    /\ script = "checkawsresources" /\ pc = "c_collect"
    /\ pending' = KindSet
    /\ pc' = "c_await"
    /\ UNCHANGED <<fanFrame, snapshot, settled>>

\* a getter that filters by what its sibling promises have resolved with so
\* far: subnets are kept only if their VPC is in the settled VPC list
SettleReadingSiblings(k) ==
    /\ script = "checkawsresources" /\ pc = "c_await"
    /\ k \in pending
    /\ pending' = pending \ {k}
    /\ settled' = [settled EXCEPT ![k] =
                      IF k = "subnets"
                      THEN SelectSeq(collectInventory(cloud, fault)[k],
                                     LAMBDA r : InSeq(Universe[r].vpc, settled["vpcs"]))
                      ELSE collectInventory(cloud, fault)[k]]
    /\ UNCHANGED <<fanFrame, snapshot, pc>>

\* the promise of getter k resolves: the getter has read the account through
\* its own list call and lookups and kept the result in its own locals
Settle(k) ==
    /\ script = "checkawsresources" /\ pc = "c_await"
    /\ k \in pending
    /\ pending' = pending \ {k}
    /\ settled' = [settled EXCEPT ![k] = collectInventory(cloud, fault)[k]]
    /\ UNCHANGED <<fanFrame, snapshot, pc>>

\* Promise.all resolves once every promise has; the array is destructured
\* and the snapshot object built from it
Assemble ==
    /\ script = "checkawsresources" /\ pc = "c_await"
    /\ pending = {}
    /\ snapshot' = <<[k \in KindSet |-> settled[k]]>>
    /\ pc' = "c_print"
    /\ UNCHANGED <<fanFrame, pending, settled>>

NextFanOut ==
    \/ IssueCalls
    \/ \E k \in KindSet : Settle(k)
    \/ Assemble
    \/ PrintInventory
    \/ WriteCache

SpecFanOut == InitFanOut /\ [][NextFanOut]_vars

----------------------------------------------------------------------------
(* What the operator may type at a prompt *)

Lines == {
    <<"Y", "E", "S">>, <<"y", "e", "s">>, <<"Y", "e", "s">>, <<" ", "y", "e", "s", " ">>, <<"Y", "E", "S", "X">>, <<"Y", "e", "s", " ", "p", "l", "e", "a", "s", "e">>,
    <<>>, <<"N", "O">>, <<"y">>,
    <<"D", "E", "L", "E", "T", "E", " ", "A", "L", "L">>, <<"d", "e", "l", "e", "t", "e", " ", "a", "l", "l">>, <<"D", "E", "L", "E", "T", "E">>,
    <<"N", "E", "W">>, <<"E", "X", "I", "S", "T", "I", "N", "G">>, <<"e", "x", "i", "s", "t", "i", "n", "g", " ">>, <<"v", "p", "c", "-", "1", "2", "3", "4", "5">>,
    <<"E", "X", "I", "S", "T">>, <<"E", "X", "I", "S", "T", "I", "N", "G", "S">> }

T_YES        == <<"Y", "E", "S">>
T_DELETE_ALL == <<"D", "E", "L", "E", "T", "E", " ", "A", "L", "L">>
T_NEW        == <<"N", "E", "W">>
T_EXISTING   == <<"E", "X", "I", "S", "T", "I", "N", "G">>

----------------------------------------------------------------------------
(* cdk/scripts/deploy-infra.ts: the gap analysis of main() *)

S_public   == <<"p", "u", "b", "l", "i", "c">>
S_private  == <<"p", "r", "i", "v", "a", "t", "e">>
S_isolated == <<"i", "s", "o", "l", "a", "t", "e", "d">>

\* Array.isArray(s.Tags) && s.Tags.some(t => t.Key === 'Name' && re.test(t.Value))
nameTagTests(r, words) ==
    \E i \in 1..Len(TagsOf(r)) :
        /\ TagsOf(r)[i].Key = K_Name
        /\ \E w \in words : includes(toLowerCase(TagsOf(r)[i].Value), w)

PublicSubnetIds ==
    {r \in Ids : Universe[r].mapPublic \/ nameTagTests(r, {S_public})}

PrivateSubnetIds ==
    {r \in Ids : ~Universe[r].mapPublic /\ nameTagTests(r, {S_private, S_isolated})}

publicSubnets(inv) == SelectSeq(inv["subnets"], LAMBDA r : r \in PublicSubnetIds)
privateSubnets(inv) == SelectSeq(inv["subnets"], LAMBDA r : r \in PrivateSubnetIds)

\* inventory.<field> && inventory.<field>.length > 0 on a parsed cache file:
\* a field the file does not hold is undefined, hence falsy
fieldNonEmpty(inv, field) == field \in DOMAIN inv /\ Len(inv[field]) > 0

Entry(key, exists) == [key |-> key, exists |-> exists]

\* the existingResources object literal, in property order
existingResources(inv) == <<
    Entry("vpc", Len(inv["vpcs"]) > 0),
    Entry("subnets", Len(inv["subnets"]) >= 3),
    Entry("publicSubnet", Len(publicSubnets(inv)) > 0),
    Entry("privateSubnet", Len(privateSubnets(inv)) > 0),
    Entry("internetGateway", fieldNonEmpty(inv, "internetGateways")),
    Entry("securityGroups", fieldNonEmpty(inv, "securityGroups")),
    Entry("rds", Len(inv["rdsInstances"]) > 0),
    Entry("rdsProxy", fieldNonEmpty(inv, "rdsProxies")),
    Entry("ec2", Len(inv["ec2Instances"]) > 0),
    Entry("s3", Len(inv["s3Buckets"]) > 0),
    Entry("routeTables", Len(inv["routeTables"]) > 0),
    Entry("networkAcls", Len(inv["networkAcls"]) > 0) >>

\* the same literal in the earlier revision of the script
existingResourcesLegacy(inv) == <<
    Entry("vpc", Len(inv["vpcs"]) > 0),
    Entry("subnets", Len(inv["subnets"]) >= 3),
    Entry("rds", Len(inv["rdsInstances"]) > 0),
    Entry("rdsProxy", fieldNonEmpty(inv, "rdsProxies")),
    Entry("ec2", Len(inv["ec2Instances"]) > 0),
    Entry("s3", Len(inv["s3Buckets"]) > 0),
    Entry("routeTables", Len(inv["routeTables"]) > 0),
    Entry("networkAcls", Len(inv["networkAcls"]) > 0) >>

\* Object.values(existingResources).every(exists => exists)
allResourcesExist(existing) == \A i \in 1..Len(existing) : existing[i].exists

\* a missing list in reverse order
RECURSIVE missingResourcesReversed(_)
missingResourcesReversed(existing) ==
    IF existing = <<>> THEN <<>>
    ELSE IF ~Head(existing).exists
         THEN missingResourcesReversed(Tail(existing)) \o <<Head(existing).key>>
         ELSE missingResourcesReversed(Tail(existing))

\* Object.entries(existingResources).filter(([_, exists]) => !exists).map(([resource, _]) => resource)
RECURSIVE missingResources(_)
missingResources(existing) ==
    IF existing = <<>> THEN <<>>
    ELSE IF ~Head(existing).exists
         THEN <<Head(existing).key>> \o missingResources(Tail(existing))
         ELSE missingResources(Tail(existing))

Gap(existing) ==
    [existing |-> existing, all |-> allResourcesExist(existing),
     missing |-> missingResources(existing)]

----------------------------------------------------------------------------
(* The pipeline scripts: shared pieces *)

DeployInfraScripts == {"deployInfra", "deployInfraLegacy"}
InventoryScripts == DeployInfraScripts \cup {"deleteInfra"}
SynthScripts == DeployInfraScripts \cup {"deploy"}
InstallScripts == SynthScripts \cup {"deleteInfra"}
Scripts == InstallScripts \cup {"destroy"}

\* never written by a pipeline script itself
fixedVars == <<script, run, previous, fault, snapshot, envVars, fanVars, webVars>>

C_collector == "ts-node checkawsresources.ts"

synthAttempts == 3
SynthRetryMs == 5000
maxSeedAttempts == 5
SeedRetryMs == 3000

\* main().catch(err => { console.error(...); process.exit(1) })
Throw == pc' = "done" /\ exitCode' = 1

\* main() returns
Return == pc' = "done" /\ exitCode' = 0

\* no prompt is being answered in this step
NoPrompt == asked' = "none" /\ answer' = <<>>

Exec(cmds) == log' = log \o cmds

\* what `cdk deploy` brings into existence: the whole stack, or, when the
\* context selects an existing VPC, the stack without VPC, subnets, route
\* table and network ACL
NetworkIds == {r \in StackIds : Universe[r].kind \in {"vpcs", "subnets", "routeTables", "networkAcls"}}

Created(ctx) ==
    IF {"vpcStrategy", "existingVpcId"} \subseteq ctx THEN StackIds \ NetworkIds ELSE StackIds

\* the accounts a pipeline run may start in: nothing, the stack deployed, and
\* either with a default VPC holding a manually created bastion
PipelineClouds == {S \cup F : S \in {{}, StackIds}, F \in {{}, {15, 17, 19}}}

\* the collector as a child process of a pipeline script: any one listing
\* call may fail, and the process may exit non-zero
ChildFaults == Faults({})

Init ==
    /\ script \in Scripts
    /\ pc = "start"
    /\ run = 1
    /\ previous = <<>>
    /\ cloud \in PipelineClouds
    /\ fault = NoFault
    /\ snapshot = <<>>
    /\ cacheFile \in {Absent, CacheOf(EmptyInventory)}
    /\ context \in {{}, {"vpcStrategy", "existingVpcId"}}
    /\ NoEnvFiles
    /\ NoPromises
    /\ NoRequests
    /\ FreshRun

\* ensureFile(package.json); checkawsresources.ts must exist
Preflight ==
    /\ script \in InventoryScripts /\ pc = "start"
    /\ \E ok \in BOOLEAN :
          IF ok THEN pc' = "collect" /\ UNCHANGED exitCode ELSE Throw
    /\ NoPrompt
    /\ UNCHANGED <<fixedVars, publicIP, cloud, cacheFile, inventory, gap, prompted, confirmed,
                   vpcStrategy, context, synthI, synthOk, seedI, seeded, log, sleeps,
                   mutated>>

\* a collection whose failure is only warned about
RunCollectorWarningOnly ==
    /\ script \in InventoryScripts /\ pc = "collect"
    /\ Exec(<<C_collector>>)
    /\ \E f \in ChildFaults :
          cacheFile' = IF f.writeFail THEN cacheFile
                       ELSE CacheOf(collectInventory(cloud, f))
    /\ pc' = "load"
    /\ NoPrompt
    /\ UNCHANGED <<fixedVars, publicIP, cloud, inventory, gap, prompted, confirmed, vpcStrategy,
                   context, synthI, synthOk, seedI, seeded, sleeps, mutated, exitCode>>

\* sh("npx ts-node checkawsresources.ts") at the start of the run: the
\* collector runs to completion as a child process; a non-zero exit throws
RunCollector ==
    /\ script \in InventoryScripts /\ pc = "collect"
    /\ Exec(<<C_collector>>)
    /\ \E f \in ChildFaults :
          IF f.writeFail
          THEN Throw /\ UNCHANGED cacheFile
          ELSE /\ cacheFile' = CacheOf(collectInventory(cloud, f))
               /\ pc' = "load"
               /\ UNCHANGED exitCode
    /\ NoPrompt
    /\ UNCHANGED <<fixedVars, publicIP, cloud, inventory, gap, prompted, confirmed, vpcStrategy,
                   context, synthI, synthOk, seedI, seeded, sleeps, mutated>>

\* loadInventory(): the parsed file, or null when it is absent or not JSON
loadInventory(file) == IF file.state = "json" THEN <<file.inventory>> ELSE <<>>

\* const inventory = loadInventory(); deploy-infra throws on null,
\* delete-infra goes on without an inventory
LoadInventory ==
    /\ script \in InventoryScripts /\ pc = "load"
    /\ inventory' = loadInventory(cacheFile)
    /\ IF inventory' = <<>> /\ script \in DeployInfraScripts
       THEN Throw
       ELSE /\ pc' = IF script = "deleteInfra" THEN "overview" ELSE "ip"
            /\ UNCHANGED exitCode
    /\ NoPrompt
    /\ UNCHANGED <<fixedVars, publicIP, cloud, cacheFile, gap, prompted, confirmed, vpcStrategy,
                   context, synthI, synthOk, seedI, seeded, log, sleeps, mutated>>

\* getCurrentPublicIP(): resolves on a 200 response; rejects on a request
\* error, on any other status and when the 10000 ms timeout fires
IpOutcomes == {"known", "request error", "HTTP status", "timeout"}

\* an update that only warns when the address is not known
UpdateInventoryWithPublicIPBestEffort ==
    /\ script \in DeployInfraScripts /\ pc = "ip"
    /\ \E outcome \in IpOutcomes :
          /\ publicIP' = outcome
          /\ cacheFile' = IF outcome = "known" /\ cacheFile.state = "json"
                          THEN [cacheFile EXCEPT !.ip = TRUE]
                          ELSE cacheFile
          /\ pc' = "analyze"
    /\ NoPrompt
    /\ UNCHANGED <<fixedVars, cloud, inventory, gap, prompted, confirmed, vpcStrategy,
                   context, synthI, synthOk, seedI, seeded, log, sleeps, mutated,
                   exitCode>>

\* an update that writes the address fields into an emptied inventory
UpdateInventoryWithPublicIPResetting ==
    /\ script \in DeployInfraScripts /\ pc = "ip"
    /\ \E outcome \in IpOutcomes, fileOk \in BOOLEAN :
          /\ publicIP' = outcome
          /\ IF outcome # "known" THEN Throw /\ UNCHANGED cacheFile
             ELSE IF cacheFile.state = "absent"
             THEN pc' = "analyze" /\ UNCHANGED <<cacheFile, exitCode>>
             ELSE IF cacheFile.state = "json" /\ fileOk
             THEN /\ cacheFile' = File("json", EmptyInventory, TRUE)
                  /\ pc' = "analyze" /\ UNCHANGED exitCode
             ELSE cacheFile' \in {cacheFile, Corrupt} /\ Throw
    /\ NoPrompt
    /\ UNCHANGED <<fixedVars, cloud, inventory, gap, prompted, confirmed, vpcStrategy,
                   context, synthI, synthOk, seedI, seeded, log, sleeps, mutated>>

\* updateInventoryWithPublicIP(): with the address known the file, if it
\* exists, is read, parsed and rewritten with developerPublicIP and
\* lastIPUpdate; every failure inside, of the lookup or of the file update,
\* is rethrown as one error. A failed write may leave the file as it was or
\* unparseable.
UpdateInventoryWithPublicIP ==
    /\ script \in DeployInfraScripts /\ pc = "ip"
    /\ \E outcome \in IpOutcomes, fileOk \in BOOLEAN :
          /\ publicIP' = outcome
          /\ IF outcome # "known"
             THEN Throw /\ UNCHANGED cacheFile
             ELSE IF cacheFile.state = "absent"
             THEN pc' = "analyze" /\ UNCHANGED <<cacheFile, exitCode>>
             ELSE IF cacheFile.state = "json" /\ fileOk
             THEN /\ cacheFile' = [cacheFile EXCEPT !.ip = TRUE]
                  /\ pc' = "analyze"
                  /\ UNCHANGED exitCode
             ELSE /\ cacheFile' \in {cacheFile, Corrupt}
                  /\ Throw
    /\ NoPrompt
    /\ UNCHANGED <<fixedVars, cloud, inventory, gap, prompted, confirmed, vpcStrategy,
                   context, synthI, synthOk, seedI, seeded, log, sleeps, mutated>>

\* where a deploy-infra run goes once it may deploy
AfterGate(s) == IF s = "deployInfra" THEN "strategy" ELSE "install"

\* an analysis that asks whatever it finds
AnalyzeAlwaysAsking ==
    /\ script \in DeployInfraScripts /\ pc = "analyze"
    /\ gap' = <<Gap(IF script = "deployInfra"
                    THEN existingResources(inventory[1])
                    ELSE existingResourcesLegacy(inventory[1]))>>
    /\ pc' = "confirm" /\ prompted' = TRUE
    /\ NoPrompt
    /\ UNCHANGED <<fixedVars, publicIP, cloud, cacheFile, inventory, confirmed, vpcStrategy,
                   context, synthI, synthOk, seedI, seeded, log, sleeps, mutated,
                   exitCode>>

\* existingResources, allResourcesExist and the branch on it; the else
\* branch prints the missing list and the prompt, then waits for a line
Analyze ==
    /\ script \in DeployInfraScripts /\ pc = "analyze"
    /\ gap' = <<Gap(IF script = "deployInfra"
                    THEN existingResources(inventory[1])
                    ELSE existingResourcesLegacy(inventory[1]))>>
    /\ IF gap'[1].all
       THEN pc' = AfterGate(script) /\ UNCHANGED prompted
       ELSE pc' = "confirm" /\ prompted' = TRUE
    /\ NoPrompt
    /\ UNCHANGED <<fixedVars, publicIP, cloud, cacheFile, inventory, confirmed, vpcStrategy,
                   context, synthI, synthOk, seedI, seeded, log, sleeps, mutated,
                   exitCode>>

\* the comparison without trim()
confirmsCreationUntrimmed(line) == toUpperCase(line) = T_YES

\* resolve(answer.trim().toUpperCase()); userConfirmation !== 'YES' returns
confirmsCreation(line) == toUpperCase(trim(line)) = T_YES

\* a prompt that goes on whatever the answer
ConfirmFallingThrough ==
    /\ script \in DeployInfraScripts /\ pc = "confirm"
    /\ \E line \in Lines :
          /\ asked' = "confirm" /\ answer' = line
          /\ confirmed' = confirmsCreation(line)
          /\ pc' = AfterGate(script)
    /\ UNCHANGED <<fixedVars, publicIP, cloud, cacheFile, inventory, gap, prompted, vpcStrategy,
                   context, synthI, synthOk, seedI, seeded, log, sleeps, mutated,
                   exitCode>>

Confirm ==
    /\ script \in DeployInfraScripts /\ pc = "confirm"
    /\ \E line \in Lines :
          /\ asked' = "confirm" /\ answer' = line
          /\ IF confirmsCreation(line)
             THEN confirmed' = TRUE /\ pc' = AfterGate(script) /\ UNCHANGED exitCode
             ELSE Return /\ UNCHANGED confirmed
    /\ UNCHANGED <<fixedVars, publicIP, cloud, cacheFile, inventory, gap, prompted, vpcStrategy,
                   context, synthI, synthOk, seedI, seeded, log, sleeps, mutated>>
\* a choice that compares the line without trimming it
vpcChoiceUntrimmed(line) == IF toUpperCase(line) = T_EXISTING THEN "existing" ELSE "new"

\* askVPCPreference(): NEW and EXISTING after trim and upper-casing, anything
\* else defaults to a new VPC
vpcChoice(line) == IF toUpperCase(trim(line)) = T_EXISTING THEN "existing" ELSE "new"

AskVPCPreference ==
    /\ script = "deployInfra" /\ pc = "strategy"
    /\ \E line \in Lines :
          /\ asked' = "strategy" /\ answer' = line
          /\ vpcStrategy' = vpcChoice(line)
          /\ pc' = IF vpcStrategy' = "existing" THEN "vpcid" ELSE "clear"
    /\ UNCHANGED <<fixedVars, publicIP, cloud, cacheFile, inventory, gap, prompted, confirmed,
                   context, synthI, synthOk, seedI, seeded, log, sleeps, mutated,
                   exitCode>>

C_setStrategy == "cdk context --set vpcStrategy=existing"
C_setVpcId == "cdk context --set existingVpcId"
C_removeStrategy == "cdk context --remove vpcStrategy"
C_removeVpcId == "cdk context --remove existingVpcId"

\* two commands in one try block: the first failure skips the rest and is
\* only warned about
ContextOutcomes == {"first fails", "second fails", "ok"}

\* getExistingVPCId() and the two `cdk context --set` commands
SetExistingVpcContext ==
    /\ script = "deployInfra" /\ pc = "vpcid"
    /\ \E line \in Lines : asked' = "vpcid" /\ answer' = trim(line)
    /\ \E outcome \in ContextOutcomes :
          CASE outcome = "first fails" ->
                  Exec(<<C_setStrategy>>) /\ UNCHANGED context
            [] outcome = "second fails" ->
                  /\ Exec(<<C_setStrategy, C_setVpcId>>)
                  /\ context' = context \cup {"vpcStrategy"}
            [] outcome = "ok" ->
                  /\ Exec(<<C_setStrategy, C_setVpcId>>)
                  /\ context' = context \cup {"vpcStrategy", "existingVpcId"}
    /\ pc' = "install"
    /\ UNCHANGED <<fixedVars, publicIP, cloud, cacheFile, inventory, gap, prompted, confirmed,
                   vpcStrategy, synthI, synthOk, seedI, seeded, sleeps, mutated,
                   exitCode>>

\* the two `cdk context --remove` commands
ClearVpcContext ==
    /\ script = "deployInfra" /\ pc = "clear"
    /\ \E outcome \in ContextOutcomes :
          CASE outcome = "first fails" ->
                  Exec(<<C_removeStrategy>>) /\ UNCHANGED context
            [] outcome = "second fails" ->
                  /\ Exec(<<C_removeStrategy, C_removeVpcId>>)
                  /\ context' = context \ {"vpcStrategy"}
            [] outcome = "ok" ->
                  /\ Exec(<<C_removeStrategy, C_removeVpcId>>)
                  /\ context' = context \ {"vpcStrategy", "existingVpcId"}
    /\ pc' = "install"
    /\ NoPrompt
    /\ UNCHANGED <<fixedVars, publicIP, cloud, cacheFile, inventory, gap, prompted, confirmed,
                   vpcStrategy, synthI, synthOk, seedI, seeded, sleeps, mutated,
                   exitCode>>

\* npm ci with a lock file, npm i without; on failure one more npm i, whose
\* failure is not caught
AfterInstall(s) == IF s = "deleteInfra" THEN "destroy" ELSE "synth"

Install ==
    /\ script \in InstallScripts /\ pc = "install"
    /\ \E cdkHasLock \in BOOLEAN, ok \in BOOLEAN, retryOk \in BOOLEAN :
          LET first == IF cdkHasLock THEN "npm ci" ELSE "npm i" IN
          IF ok
          THEN Exec(<<first>>) /\ pc' = AfterInstall(script) /\ UNCHANGED exitCode
          ELSE /\ Exec(<<first, "npm i">>)
               /\ IF retryOk
                  THEN pc' = AfterInstall(script) /\ UNCHANGED exitCode
                  ELSE Throw
    /\ NoPrompt
    /\ UNCHANGED <<fixedVars, publicIP, cloud, cacheFile, inventory, gap, prompted, confirmed,
                   vpcStrategy, context, synthI, synthOk, seedI, seeded, sleeps,
                   mutated>>

\* an iteration that pauses before it gives up
SynthAttemptPausingBeforeThrow ==
    /\ script \in SynthScripts /\ pc = "synth"
    /\ synthI < synthAttempts
    /\ synthI' = synthI + 1
    /\ Exec(<<"cdk synth">>)
    /\ \E ok \in BOOLEAN :
          IF ok
          THEN /\ synthOk' = TRUE
               /\ pc' = "deploy"
               /\ UNCHANGED <<sleeps, exitCode>>
          ELSE /\ UNCHANGED synthOk
               /\ sleeps' = Append(sleeps, SynthRetryMs)
               /\ IF synthI' = synthAttempts
                  THEN Throw
                  ELSE pc' = "synth" /\ UNCHANGED exitCode
    /\ NoPrompt
    /\ UNCHANGED <<fixedVars, publicIP, cloud, cacheFile, inventory, gap, prompted, confirmed,
                   vpcStrategy, context, seedI, seeded, mutated>>

\* one iteration of for (let i = 1; i <= synthAttempts; i++)
SynthAttempt ==
    /\ script \in SynthScripts /\ pc = "synth"
    /\ synthI < synthAttempts
    /\ synthI' = synthI + 1
    /\ Exec(<<"cdk synth">>)
    /\ \E ok \in BOOLEAN :
          IF ok
          THEN /\ synthOk' = TRUE
               /\ pc' = "deploy"
               /\ UNCHANGED <<sleeps, exitCode>>
          ELSE /\ UNCHANGED synthOk
               /\ IF synthI' = synthAttempts
                  THEN Throw /\ UNCHANGED sleeps
                  ELSE /\ sleeps' = Append(sleeps, SynthRetryMs)
                       /\ pc' = "synth"
                       /\ UNCHANGED exitCode
    /\ NoPrompt
    /\ UNCHANGED <<fixedVars, publicIP, cloud, cacheFile, inventory, gap, prompted, confirmed,
                   vpcStrategy, context, seedI, seeded, mutated>>

\* a deployment whose failure is survived
DeployToleratingFailure ==
    /\ script \in SynthScripts /\ pc = "deploy"
    /\ Exec(<<"cdk deploy">>)
    /\ \E ok \in BOOLEAN :
          /\ IF ok
             THEN cloud' = cloud \cup Created(context) /\ mutated' = TRUE
             ELSE UNCHANGED <<cloud, mutated>>
          /\ pc' = IF script = "deploy" THEN "outputs" ELSE "verify"
          /\ UNCHANGED exitCode
    /\ NoPrompt
    /\ UNCHANGED <<fixedVars, publicIP, cacheFile, inventory, gap, prompted, confirmed,
                   vpcStrategy, context, synthI, synthOk, seedI, seeded, sleeps>>

\* sh("npx cdk deploy --require-approval never"); a failure is not caught
Deploy ==
    /\ script \in SynthScripts /\ pc = "deploy"
    /\ Exec(<<"cdk deploy">>)
    /\ \E ok \in BOOLEAN :
          IF ok
          THEN /\ cloud' = cloud \cup Created(context)
               /\ mutated' = TRUE
               /\ pc' = IF script = "deploy" THEN "outputs" ELSE "verify"
               /\ UNCHANGED exitCode
          ELSE Throw /\ UNCHANGED <<cloud, mutated>>
    /\ NoPrompt
    /\ UNCHANGED <<fixedVars, publicIP, cacheFile, inventory, gap, prompted, confirmed,
                   vpcStrategy, context, synthI, synthOk, seedI, seeded, sleeps>>

\* a verification that collects again from the start when it fails
VerifyRecollecting ==
    /\ script \in DeployInfraScripts /\ pc = "verify"
    /\ Exec(<<C_collector>>)
    /\ \E f \in ChildFaults :
          IF f.writeFail
          THEN pc' = "collect" /\ UNCHANGED <<cacheFile, exitCode>>
          ELSE cacheFile' = CacheOf(collectInventory(cloud, f)) /\ Return
    /\ NoPrompt
    /\ UNCHANGED <<fixedVars, publicIP, cloud, inventory, gap, prompted, confirmed, vpcStrategy,
                   context, synthI, synthOk, seedI, seeded, sleeps, mutated>>

\* a verification whose failure is only warned about
VerifyWarningOnly ==
    /\ script \in DeployInfraScripts /\ pc = "verify"
    /\ Exec(<<C_collector>>)
    /\ \E f \in ChildFaults :
          cacheFile' = IF f.writeFail THEN cacheFile
                       ELSE CacheOf(collectInventory(cloud, f))
    /\ Return
    /\ NoPrompt
    /\ UNCHANGED <<fixedVars, publicIP, cloud, inventory, gap, prompted, confirmed, vpcStrategy,
                   context, synthI, synthOk, seedI, seeded, sleeps, mutated>>

\* a verification whose collector merges its snapshot into the file it finds
VerifyMerging ==
    /\ script \in DeployInfraScripts /\ pc = "verify"
    /\ Exec(<<C_collector>>)
    /\ \E f \in ChildFaults :
          IF f.writeFail
          THEN Throw /\ UNCHANGED cacheFile
          ELSE /\ cacheFile' = File("json", collectInventory(cloud, f),
                                    cacheFile.state = "json" /\ cacheFile.ip)
               /\ Return
    /\ NoPrompt
    /\ UNCHANGED <<fixedVars, publicIP, cloud, inventory, gap, prompted, confirmed, vpcStrategy,
                   context, synthI, synthOk, seedI, seeded, sleeps, mutated>>

\* the collector once more after the deployment; its failure is rethrown
Verify ==
    /\ script \in DeployInfraScripts /\ pc = "verify"
    /\ Exec(<<C_collector>>)
    /\ \E f \in ChildFaults :
          IF f.writeFail
          THEN Throw /\ UNCHANGED cacheFile
          ELSE cacheFile' = CacheOf(collectInventory(cloud, f)) /\ Return
    /\ NoPrompt
    /\ UNCHANGED <<fixedVars, publicIP, cloud, inventory, gap, prompted, confirmed, vpcStrategy,
                   context, synthI, synthOk, seedI, seeded, sleeps, mutated>>

----------------------------------------------------------------------------
(* delete-infra.ts *)

\* displayResourceSummary when an inventory was loaded, then `cdk list`,
\* whose failure is caught; then the warning and the prompt are printed
ResourceOverview ==
    /\ script = "deleteInfra" /\ pc = "overview"
    /\ Exec(<<"cdk list">>)
    /\ prompted' = TRUE
    /\ pc' = "confirm"
    /\ NoPrompt
    /\ UNCHANGED <<fixedVars, publicIP, cloud, cacheFile, inventory, gap, confirmed, vpcStrategy,
                   context, synthI, synthOk, seedI, seeded, sleeps, mutated, exitCode>>

\* getUserConfirmation(): answer.trim().toUpperCase() === 'DELETE ALL'
getUserConfirmation(line) == toUpperCase(trim(line)) = T_DELETE_ALL

ConfirmDeletion ==
    /\ script = "deleteInfra" /\ pc = "confirm"
    /\ \E line \in Lines :
          /\ asked' = "confirm" /\ answer' = line
          /\ IF getUserConfirmation(line)
             THEN confirmed' = TRUE /\ pc' = "install" /\ UNCHANGED exitCode
             ELSE Return /\ UNCHANGED confirmed
    /\ UNCHANGED <<fixedVars, publicIP, cloud, cacheFile, inventory, gap, prompted, vpcStrategy,
                   context, synthI, synthOk, seedI, seeded, log, sleeps, mutated>>

\* `cdk destroy --force`: delete-infra.ts rethrows a failure, scripts/destroy.ts
\* does not catch it; afterwards delete-infra.ts verifies and destroy.ts ends
Destroy ==
    /\ script \in {"deleteInfra", "destroy"} /\ pc = "destroy"
    /\ Exec(<<"cdk destroy">>)
    /\ \E ok \in BOOLEAN :
          IF ok
          THEN /\ cloud' = cloud \ StackIds
               /\ mutated' = TRUE
               /\ IF script = "deleteInfra"
                  THEN pc' = "verify" /\ UNCHANGED exitCode
                  ELSE Return
          ELSE Throw /\ UNCHANGED <<cloud, mutated>>
    /\ NoPrompt
    /\ UNCHANGED <<fixedVars, publicIP, cacheFile, inventory, gap, prompted, confirmed,
                   vpcStrategy, context, synthI, synthOk, seedI, seeded, sleeps>>

\* a final verification whose failure is rethrown
FinalVerificationRethrowing ==
    /\ script = "deleteInfra" /\ pc = "verify"
    /\ Exec(<<C_collector>>)
    /\ \E f \in ChildFaults :
          IF f.writeFail
          THEN Throw /\ UNCHANGED cacheFile
          ELSE cacheFile' = CacheOf(collectInventory(cloud, f)) /\ Return
    /\ NoPrompt
    /\ UNCHANGED <<fixedVars, publicIP, cloud, inventory, gap, prompted, confirmed, vpcStrategy,
                   context, synthI, synthOk, seedI, seeded, sleeps, mutated>>

\* the collector once more after the deletion; its failure is only warned about
FinalVerification ==
    /\ script = "deleteInfra" /\ pc = "verify"
    /\ Exec(<<C_collector>>)
    /\ \E f \in ChildFaults :
          cacheFile' = IF f.writeFail THEN cacheFile
                       ELSE CacheOf(collectInventory(cloud, f))
    /\ Return
    /\ NoPrompt
    /\ UNCHANGED <<fixedVars, publicIP, cloud, inventory, gap, prompted, confirmed, vpcStrategy,
                   context, synthI, synthOk, seedI, seeded, sleeps, mutated>>

----------------------------------------------------------------------------
(* scripts/destroy.ts *)

\* inquirer's confirm prompt: an empty line takes the default, any other line
\* is yes exactly when it starts with y or Y
inquirerConfirm(line, default) ==
    IF line = <<>> THEN default ELSE toLowerChar(line[1]) = "y"

InquirerConfirm ==
    /\ script = "destroy" /\ pc = "start"
    /\ prompted' = TRUE
    /\ \E line \in Lines :
          /\ asked' = "confirm" /\ answer' = line
          /\ IF inquirerConfirm(line, FALSE)
             THEN confirmed' = TRUE /\ pc' = "destroy" /\ UNCHANGED exitCode
             ELSE Return /\ UNCHANGED confirmed
    /\ UNCHANGED <<fixedVars, publicIP, cloud, cacheFile, inventory, gap, vpcStrategy, context,
                   synthI, synthOk, seedI, seeded, log, sleeps, mutated>>

----------------------------------------------------------------------------
(* scripts/deploy.ts *)

\* step 1: the checks of app/package.json, the UI install with its fallback,
\* the build script check and `npm run build`; then cdk/package.json is checked
BuildUI ==
    /\ script = "deploy" /\ pc = "start"
    /\ \E filesOk \in BOOLEAN, uiHasLock \in BOOLEAN, ok \in BOOLEAN, buildOk \in BOOLEAN :
          LET first == IF uiHasLock THEN "npm ci" ELSE "npm i" IN
          IF ~filesOk
          THEN Throw /\ UNCHANGED log
          ELSE IF ~ok
          THEN Exec(<<first, "npm i">>) /\ Throw
          ELSE /\ Exec(<<first, "npm run build">>)
               /\ IF buildOk THEN pc' = "install" /\ UNCHANGED exitCode ELSE Throw
    /\ NoPrompt
    /\ UNCHANGED <<fixedVars, publicIP, cloud, cacheFile, inventory, gap, prompted, confirmed,
                   vpcStrategy, context, synthI, synthOk, seedI, seeded, sleeps,
                   mutated>>

\* step 3: describe-stacks, JSON.parse and the ApiUrl lookup; each can throw
ReadStackOutputs ==
    /\ script = "deploy" /\ pc = "outputs"
    /\ Exec(<<"aws cloudformation describe-stacks">>)
    /\ \E ok \in BOOLEAN :
          IF ok THEN pc' = "seed" /\ UNCHANGED exitCode ELSE Throw
    /\ NoPrompt
    /\ UNCHANGED <<fixedVars, publicIP, cloud, cacheFile, inventory, gap, prompted, confirmed,
                   vpcStrategy, context, synthI, synthOk, seedI, seeded, sleeps,
                   mutated>>

SeedCodes == {"200", "204", "500", "throws"}

\* a seeding loop that throws once its attempts are used up
SeedAttemptFatalWhenExhausted ==
    /\ script = "deploy" /\ pc = "seed"
    /\ seedI < maxSeedAttempts
    /\ seedI' = seedI + 1
    /\ Exec(<<"curl POST seed">>)
    /\ \E code \in SeedCodes :
          IF code \in {"200", "204"}
          THEN seeded' = TRUE /\ pc' = "finish" /\ UNCHANGED <<sleeps, exitCode>>
          ELSE /\ sleeps' = Append(sleeps, SeedRetryMs)
               /\ IF seedI' = maxSeedAttempts THEN Throw
                  ELSE pc' = "seed" /\ UNCHANGED exitCode
               /\ UNCHANGED seeded
    /\ NoPrompt
    /\ UNCHANGED <<fixedVars, publicIP, cloud, cacheFile, inventory, gap, prompted, confirmed,
                   vpcStrategy, context, synthI, synthOk, mutated>>

\* one iteration of for (let i = 1; i <= maxSeedAttempts; i++): the POST,
\* success on 200 or 204, otherwise a pause, also after the last attempt
SeedAttempt ==
    /\ script = "deploy" /\ pc = "seed"
    /\ seedI < maxSeedAttempts
    /\ seedI' = seedI + 1
    /\ Exec(<<"curl POST seed">>)
    /\ \E code \in SeedCodes :
          IF code \in {"200", "204"}
          THEN seeded' = TRUE /\ pc' = "finish" /\ UNCHANGED sleeps
          ELSE /\ sleeps' = Append(sleeps, SeedRetryMs)
               /\ pc' = IF seedI' = maxSeedAttempts THEN "finish" ELSE "seed"
               /\ UNCHANGED seeded
    /\ NoPrompt
    /\ UNCHANGED <<fixedVars, publicIP, cloud, cacheFile, inventory, gap, prompted, confirmed,
                   vpcStrategy, context, synthI, synthOk, mutated, exitCode>>

\* steps 5 to 7 only print; a failed seeding is reported, not thrown
Finish ==
    /\ script = "deploy" /\ pc = "finish"
    /\ Return
    /\ NoPrompt
    /\ UNCHANGED <<fixedVars, publicIP, cloud, cacheFile, inventory, gap, prompted, confirmed,
                   vpcStrategy, context, synthI, synthOk, seedI, seeded, log, sleeps,
                   mutated>>

----------------------------------------------------------------------------

Next ==
    \/ Preflight
    \/ RunCollector
    \/ LoadInventory
    \/ UpdateInventoryWithPublicIP
    \/ Analyze
    \/ Confirm
    \/ AskVPCPreference
    \/ SetExistingVpcContext
    \/ ClearVpcContext
    \/ Install
    \/ SynthAttempt
    \/ Deploy
    \/ Verify
    \/ ResourceOverview
    \/ ConfirmDeletion
    \/ Destroy
    \/ FinalVerification
    \/ InquirerConfirm
    \/ BuildUI
    \/ ReadStackOutputs
    \/ SeedAttempt
    \/ Finish

Spec == Init /\ [][Next]_vars

----------------------------------------------------------------------------
(* deploy-infra run again in the same account and working directory *)

MaxRuns == 2

\* what a finished run leaves for the comparison with the next one
Summary == [exitCode |-> exitCode, deployed |-> mutated, cloud |-> cloud]

InitRerun == Init /\ script \in DeployInfraScripts

\* the operator starts the script again: account, cache file and cdk context
\* are as the finished run left them, the locals are fresh
RunAgain ==
    /\ script \in DeployInfraScripts /\ pc = "done"
    /\ run < MaxRuns
    /\ run' = run + 1
    /\ previous' = <<Summary>>
    /\ pc' = "start"
    /\ inventory' = <<>> /\ gap' = <<>>
    /\ publicIP' = "unknown"
    /\ NoPrompt
    /\ prompted' = FALSE /\ confirmed' = FALSE
    /\ vpcStrategy' = "unset"
    /\ synthI' = 0 /\ synthOk' = FALSE
    /\ seedI' = 0 /\ seeded' = FALSE
    /\ log' = <<>> /\ sleeps' = <<>>
    /\ mutated' = FALSE
    /\ exitCode' = -1
    /\ UNCHANGED <<script, fault, snapshot, cloud, cacheFile, context, envVars, fanVars, webVars>>

NextRerun ==
    \/ Preflight
    \/ RunCollector
    \/ LoadInventory
    \/ UpdateInventoryWithPublicIP
    \/ Analyze
    \/ Confirm
    \/ AskVPCPreference
    \/ SetExistingVpcContext
    \/ ClearVpcContext
    \/ Install
    \/ SynthAttempt
    \/ Deploy
    \/ Verify
    \/ RunAgain

SpecRerun == InitRerun /\ [][NextRerun]_vars

----------------------------------------------------------------------------
(* The gap analysis of deploy-infra applied to any inventory the collector
   can write, and applied once more to the same inventory *)

\* the inventories a collector run can leave in the cache file
Inventories == {collectInventory(c, f) : c \in Clouds, f \in ChildFaults}

\* main() at the gap analysis: the inventory is loaded, the address known
InitGap ==
    /\ script \in DeployInfraScripts
    /\ pc = "analyze"
    /\ run = 1
    /\ previous = <<>>
    /\ cloud = {}
    /\ fault = NoFault
    /\ snapshot = <<>>
    /\ context = {}
    /\ \E inv \in Inventories :
          /\ cacheFile = File("json", inv, TRUE)
          /\ inventory = <<inv>>
    /\ publicIP = "known"
    /\ gap = <<>>
    /\ asked = "none" /\ answer = <<>>
    /\ prompted = FALSE /\ confirmed = FALSE
    /\ vpcStrategy = "unset"
    /\ synthI = 0 /\ synthOk = FALSE
    /\ seedI = 0 /\ seeded = FALSE
    /\ log = <<C_collector>> /\ sleeps = <<>>
    /\ mutated = FALSE
    /\ exitCode = -1
    /\ NoEnvFiles /\ envContent = <<>>
    /\ NoPromises
    /\ NoRequests

\* the analysis made again on the inventory it was made on; the first
\* report is kept for comparison
AnalyzeAgain ==
    /\ script \in DeployInfraScripts
    /\ run = 1 /\ gap # <<>>
    /\ run' = 2
    /\ previous' = gap
    /\ gap' = <<>>
    /\ prompted' = FALSE
    /\ pc' = "analyze"
    /\ NoPrompt
    /\ UNCHANGED <<script, fault, snapshot, cloud, cacheFile, inventory, publicIP,
                   confirmed, vpcStrategy, context, synthI, synthOk, seedI, seeded,
                   log, sleeps, mutated, exitCode, envVars, fanVars, webVars>>

NextGap ==
    \/ Analyze
    \/ AnalyzeAgain

SpecGap == InitGap /\ [][NextGap]_vars

----------------------------------------------------------------------------
(* The env-file generators: generate-env (app/.env.local) and
   generate-lambda-env (lambdas/.env) *)

EnvScripts == {"generateEnv", "generateLambdaEnv"}

\* xs?.[0]: the first record, 0 for undefined
First(xs) == IF Len(xs) > 0 THEN xs[1] ELSE 0

S_db_secret == <<"d", "b", "_", "s", "e", "c", "r", "e", "t">>

\* inventory.secrets?.find(s => s.Name.includes('db_secret'))
dbSecret(inv) ==
    First(SelectSeq(inv["secrets"], LAMBDA r : includes(NameOf(r), S_db_secret)))

\* The generated text, identified by what the template interpolates: the
\* time of generation and the records whose fields it prints.
generateEnvContent(inv, now) ==
    <<now, First(inv["apiGateways"]), First(inv["cloudFrontDistributions"]),
      First(inv["s3Buckets"]), First(inv["rdsProxies"])>>

generateLambdaEnvContent(inv, now) ==
    <<now, First(inv["rdsProxies"]), dbSecret(inv), First(inv["apiGateways"])>>

\* the `throw new Error("No ... found in inventory ...")` guards
generationThrows(s, inv) ==
    IF s = "generateEnv"
    THEN First(inv["apiGateways"]) = 0
    ELSE First(inv["rdsProxies"]) = 0 \/ dbSecret(inv) = 0

\* new Date() during this run; an earlier run was at an earlier time
Clock == {2, 3}

\* what the target and its backup may hold beforehand: a hand-written
\* file, or the output of an earlier generation for the deployed stack
OldTexts ==
    {<<0>>,
     generateEnvContent(collectInventory(StackIds, NoFault), 1),
     generateLambdaEnvContent(collectInventory(StackIds, NoFault), 1)}

OldFiles == {<<>>} \cup {<<t>> : t \in OldTexts}

\* left alone by the generators
envFrame == <<script, run, previous, cloud, fault, snapshot, cacheFile, publicIP, gap,
              asked, answer, prompted, confirmed, vpcStrategy, context, synthI, synthOk,
              seedI, seeded, log, sleeps, mutated, fanVars, webVars>>

InitEnv ==
    /\ script \in EnvScripts
    /\ pc = "start"
    /\ run = 1
    /\ previous = <<>>
    /\ cloud \in PipelineClouds
    /\ fault = NoFault
    /\ snapshot = <<>>
    /\ cacheFile \in {Absent, Corrupt}
                     \cup {CacheOf(collectInventory(cloud, f)) : f \in ChildFaults}
    /\ context = {}
    /\ envFile \in OldFiles
    /\ envBackup \in OldFiles
    /\ NoPromises
    /\ NoRequests
    /\ FreshRun

\* 1/4: package.json, the target directory and aws-inventory.json must exist
CheckPrerequisites ==
    /\ script \in EnvScripts /\ pc = "start"
    /\ \E ok \in BOOLEAN :
          IF ok /\ cacheFile.state # "absent"
          THEN pc' = "read" /\ UNCHANGED exitCode
          ELSE Throw
    /\ UNCHANGED <<envFrame, inventory, envVars>>

\* 2/4: JSON.parse(fs.readFileSync(inventoryPath)), then console output only
\* (displayInventoryInfo; performConnectionTests catches what it throws)
ReadInventory ==
    /\ script \in EnvScripts /\ pc = "read"
    /\ IF cacheFile.state = "json"
       THEN inventory' = <<cacheFile.inventory>> /\ pc' = "generate" /\ UNCHANGED exitCode
       ELSE Throw /\ UNCHANGED inventory
    /\ UNCHANGED <<envFrame, envVars>>

\* a generation step that backs the target up before it generates
GenerateContentBackingUpFirst ==
    /\ script \in EnvScripts /\ pc = "generate"
    /\ envBackup' = IF envFile # <<>> THEN envFile ELSE envBackup
    /\ IF generationThrows(script, inventory[1])
       THEN Throw /\ UNCHANGED envContent
       ELSE /\ \E now \in Clock :
                 envContent' = <<IF script = "generateEnv"
                                 THEN generateEnvContent(inventory[1], now)
                                 ELSE generateLambdaEnvContent(inventory[1], now)>>
            /\ pc' = "save" /\ UNCHANGED exitCode
    /\ UNCHANGED <<envFrame, inventory, envFile>>

\* 3/4: generateEnvContent / generateLambdaEnvContent
GenerateContent ==
    /\ script \in EnvScripts /\ pc = "generate"
    /\ IF generationThrows(script, inventory[1])
       THEN Throw /\ UNCHANGED envContent
       ELSE /\ \E now \in Clock :
                 envContent' = <<IF script = "generateEnv"
                                 THEN generateEnvContent(inventory[1], now)
                                 ELSE generateLambdaEnvContent(inventory[1], now)>>
            /\ pc' = "save" /\ UNCHANGED exitCode
    /\ UNCHANGED <<envFrame, inventory, envFile, envBackup>>

\* a save that writes the target first and copies it afterwards
SaveEnvFileCopyingAfterWrite ==
    /\ script \in EnvScripts /\ pc = "save"
    /\ \E copyOk \in BOOLEAN, writeOk \in BOOLEAN :
          IF ~writeOk THEN Throw /\ UNCHANGED <<envFile, envBackup>>
          ELSE /\ envFile' = envContent
               /\ IF envFile = <<>> THEN Return /\ UNCHANGED envBackup
                  ELSE IF copyOk THEN envBackup' = envContent /\ Return
                  ELSE Throw /\ UNCHANGED envBackup
    /\ UNCHANGED <<envFrame, inventory, envContent>>

\* 4/4: if the target exists, fs.copyFileSync(envPath, backupPath); then
\* fs.writeFileSync(envPath, envContent); the rest of main() prints
SaveEnvFile ==
    /\ script \in EnvScripts /\ pc = "save"
    /\ \E copyOk \in BOOLEAN, writeOk \in BOOLEAN :
          IF envFile # <<>> /\ ~copyOk
          THEN Throw /\ UNCHANGED <<envFile, envBackup>>
          ELSE /\ envBackup' = IF envFile # <<>> THEN envFile ELSE envBackup
               /\ IF writeOk
                  THEN envFile' = envContent /\ Return
                  ELSE Throw /\ UNCHANGED envFile
    /\ UNCHANGED <<envFrame, inventory, envContent>>

NextEnv ==
    \/ CheckPrerequisites
    \/ ReadInventory
    \/ GenerateContent
    \/ SaveEnvFile

SpecEnv == InitEnv /\ [][NextEnv]_vars

----------------------------------------------------------------------------
(* lambdas/api.ts (the API Lambda), lambdas/seed.ts (the seed Lambda) and
   app/src/app/api/submit-answer/route.ts (the Next.js proxy route) *)

\* JavaScript values as far as the handlers look at them: the type and, for
\* strings and arrays, the length (for numbers the value, for booleans 0/1).
\* A field a JSON text does not hold destructures to undefined.
Js(t, n) == [t |-> t, n |-> n]
JsUndefined == Js("undefined", 0)

FieldValues ==
    {JsUndefined, Js("null", 0), Js("string", 0), Js("string", 8), Js("number", 0),
     Js("number", 5), Js("boolean", 0), Js("boolean", 1), Js("array", 0),
     Js("array", 1), Js("array", 2), Js("object", 0)}

\* ToBoolean(v), as in !v
truthy(v) ==
    CASE v.t \in {"undefined", "null"} -> FALSE
      [] v.t \in {"string", "number", "boolean"} -> v.n # 0
      [] OTHER -> TRUE

\* Array.isArray(v)
isArray(v) == v.t = "array"

\* v.length === 0: strings and arrays have a length, other values have none
lengthIsZero(v) == v.t \in {"string", "array"} /\ v.n = 0

\* A request body as text. kind: "undefined" (no body), "empty" (""),
\* "invalid" (not JSON), "null" (the text null), "scalar" (a JSON number,
\* string or boolean) or "object"; the two fields matter for an object only.
Body(kind, q, a) == [kind |-> kind, question_id |-> q, selected_answers |-> a]

Bodies ==
    {Body(k, JsUndefined, JsUndefined) : k \in {"undefined", "empty", "invalid", "null", "scalar"}}
    \cup {Body("object", q, a) : q \in {JsUndefined, Js("string", 0), Js("string", 8)},
                                 a \in FieldValues}

\* JSON.parse(text) followed by const { question_id, selected_answers } = ...:
\* <<>> when either throws (no text, not JSON, the value null), otherwise the
\* two destructured values
parseAndDestructure(b) ==
    IF b.kind \in {"undefined", "empty", "invalid", "null"} THEN <<>>
    ELSE IF b.kind = "scalar" THEN <<[question_id |-> JsUndefined, selected_answers |-> JsUndefined]>>
    ELSE <<[question_id |-> b.question_id, selected_answers |-> b.selected_answers]>>

\* JSON.stringify({ question_id, selected_answers, timestamp }): an object
\* text; a property whose value is undefined is left out
stringify(q, a) == Body("object", q, a)

P_nist == <<"/", "s", "u", "r", "v", "e", "y", "/", "n", "i", "s", "t", "-", "c", "s", "f">>
P_submit == <<"/", "s", "u", "r", "v", "e", "y", "/", "s", "u", "b", "m", "i", "t">>

Paths ==
    {P_nist, P_submit, <<"/", "p", "r", "o", "d", "/", "s", "u", "r", "v", "e", "y", "/", "s", "u", "b", "m", "i", "t">>, <<"/", "s", "u", "r", "v", "e", "y", "/", "n", "i", "s", "t", "-", "c", "s", "f", "/", "1">>,
     <<"/", "s", "u", "r", "v", "e", "y">>, <<"/", "a", "d", "m", "i", "n", "/", "s", "e", "e", "d">>, <<>>}

Methods == {"GET", "POST", "OPTIONS"}

Event(method, path, body) == [httpMethod |-> method, path |-> path, body |-> body]

ResponseHeaders ==
    {<<"content-type", "application/json">>,
     <<"access-control-allow-origin", "*">>,
     <<"access-control-allow-methods", "GET, POST, OPTIONS">>,
     <<"access-control-allow-headers", "Content-Type">>}

NoResult == [op |-> "none", question_id |-> JsUndefined, selected_answers |-> JsUndefined]

Response(status, error, result) ==
    [statusCode |-> status, headers |-> ResponseHeaders, error |-> error, result |-> result]

\* the three responses of the API handler
Ok200(result) == Response(200, "", result)
NotFound404 == Response(404, "Endpoint not found", NoResult)
Error500 == Response(500, "Internal server error", NoResult)

\* submitSurveyAnswer(db, body): <<>> when it throws, otherwise <<result>>
submitSurveyAnswer(body) ==
    IF body.kind \in {"undefined", "empty"} THEN <<>>
    ELSE LET parsed == parseAndDestructure(body) IN
         IF parsed = <<>> THEN <<>>
         ELSE IF \/ ~truthy(parsed[1].question_id)
                 \/ ~truthy(parsed[1].selected_answers)
                 \/ ~isArray(parsed[1].selected_answers)
              THEN <<>>
              ELSE <<[op |-> "submitted",
                      question_id |-> parsed[1].question_id,
                      selected_answers |-> parsed[1].selected_answers]>>

\* The database: the tables that exist, each with the columns seed.ts gives
\* it, and their rows; a row is identified by its table and primary key,
\* `survey` is the survey_template_id of a question row, `content` tells the
\* values the seed handler inserts ("seed") from any other ("other")
Row(table, key, survey, content) ==
    [table |-> table, key |-> key, survey |-> survey, content |-> content]

SeedTables == {"template_surveys", "questions_template", "answers_options_template"}

Columns(table) ==
    CASE table = "template_surveys" -> {"survey_template_id", "survey_template_name"}
      [] table = "questions_template" ->
            {"survey_template_id", "question_id", "category", "sub_category", "question",
             "question_tool_tip"}
      [] table = "answers_options_template" ->
            {"answer_id", "question_id", "answer_type", "option"}
      [] OTHER -> {}

SurveyRow == Row("template_surveys", "nist-csf-2024", "", "seed")
QuestionRow == Row("questions_template", "id_am_01", "nist-csf-2024", "seed")
AnswerRows ==
    {Row("answers_options_template", "id_am_01_a1", "", "seed"),
     Row("answers_options_template", "id_am_01_a2", "", "seed")}

SeedRows == {SurveyRow, QuestionRow} \cup AnswerRows

\* create table if not exists ...; three times
createTables(db) == [db EXCEPT !.tables = @ \cup SeedTables]

\* insert into ... values ... on conflict do nothing: a row whose primary
\* key is taken is skipped; the table must exist
insertOnConflictDoNothing(db, rows) ==
    [db EXCEPT !.rows =
        @ \cup {r \in rows : ~\E o \in db.rows : o.table = r.table /\ o.key = r.key}]

\* the four statements of the seed handler, the first n of them
RECURSIVE seedStatements(_, _)
seedStatements(db, n) ==
    IF n = 0 THEN db
    ELSE LET before == seedStatements(db, n - 1) IN
         CASE n = 1 -> createTables(before)
           [] n = 2 -> insertOnConflictDoNothing(before, {SurveyRow})
           [] n = 3 -> insertOnConflictDoNothing(before, {QuestionRow})
           [] n = 4 -> insertOnConflictDoNothing(before, AnswerRows)

SeedResponse ==
    [statusCode |-> 200,
     headers |-> {<<"content-type", "application/json">>, <<"access-control-allow-origin", "*">>},
     error |-> "",
     result |-> [op |-> "seeded", question_id |-> JsUndefined, selected_answers |-> JsUndefined]]

\* the columns the second query of getSurveyQuestion selects
AnswerQueryColumns == {"answer_id", "answer_type", "answer"}

\* getSurveyQuestion(db): <<>> when a query throws (a table or a column
\* that does not exist), otherwise <<result>>
getSurveyQuestion(db) ==
    IF "questions_template" \notin db.tables THEN <<>>
    ELSE IF ~\E r \in db.rows : r.table = "questions_template" /\ r.survey = "nist-csf-2024"
    THEN <<[op |-> "noQuestions", question_id |-> JsUndefined, selected_answers |-> JsUndefined]>>
    ELSE IF \/ "answers_options_template" \notin db.tables
            \/ ~(AnswerQueryColumns \subseteq Columns("answers_options_template"))
    THEN <<>>
    ELSE <<[op |-> "question", question_id |-> JsUndefined, selected_answers |-> JsUndefined]>>

Databases ==
    {EmptyDatabase,
     createTables(EmptyDatabase),
     seedStatements(EmptyDatabase, 4),
     [tables |-> SeedTables,
      rows |-> {Row("questions_template", "id_am_01", "iso-27001", "other"),
                Row("template_surveys", "iso-27001", "", "other")}]}

\* left alone by the handlers and the route
webFrame == <<script, run, previous, cloud, fault, snapshot, cacheFile, inventory, publicIP,
              gap, asked, answer, prompted, confirmed, vpcStrategy, context, synthI, synthOk,
              seedI, seeded, log, sleeps, mutated, exitCode, envVars, fanVars>>

\* an invocation of the API Lambda by API Gateway, or a POST to the route
InitApi ==
    /\ script = "api"
    /\ run = 1
    /\ previous = <<>>
    /\ cloud = StackIds
    /\ fault = NoFault
    /\ snapshot = <<>>
    /\ cacheFile = Absent
    /\ context = {}
    /\ NoEnvFiles
    /\ NoPromises
    /\ FreshRun
    /\ conn = "none" /\ response = <<>> /\ proxyResponse = <<>>
    /\ database \in Databases
    /\ \/ /\ proxyRequest = <<>>
          /\ \E m \in Methods, p \in Paths, b \in Bodies : event = <<Event(m, p, b)>>
          /\ pc = "l_secret"
       \/ /\ \E b \in Bodies : proxyRequest = <<b>>
          /\ event = <<>>
          /\ pc = "p_post"

\* what the route answers
RouteResponse(status, error, result) == [status |-> status, error |-> error, result |-> result]

\* POST of route.ts up to the fetch: request.json() and the destructuring
\* throw into the catch; missing fields are answered 400; without
\* API_GATEWAY_URL the answer is 500; fetch may reject
ProxyPost ==
    /\ script = "api" /\ pc = "p_post"
    /\ LET parsed == IF proxyRequest[1].kind \in {"undefined", "empty"} THEN <<>>
                     ELSE parseAndDestructure(proxyRequest[1]) IN
       IF parsed = <<>>
       THEN /\ proxyResponse' = <<RouteResponse(500, "Failed to submit answer", NoResult)>>
            /\ pc' = "p_done" /\ UNCHANGED event
       ELSE IF \/ ~truthy(parsed[1].question_id)
               \/ ~truthy(parsed[1].selected_answers)
               \/ lengthIsZero(parsed[1].selected_answers)
       THEN /\ proxyResponse' = <<RouteResponse(400, "Missing required fields", NoResult)>>
            /\ pc' = "p_done" /\ UNCHANGED event
       ELSE \E outcome \in {"not configured", "fetch rejects", "sent"} :
               CASE outcome = "not configured" ->
                       /\ proxyResponse' =
                             <<RouteResponse(500, "API Gateway URL not configured", NoResult)>>
                       /\ pc' = "p_done" /\ UNCHANGED event
                 [] outcome = "fetch rejects" ->
                       /\ proxyResponse' =
                             <<RouteResponse(500, "Failed to submit answer", NoResult)>>
                       /\ pc' = "p_done" /\ UNCHANGED event
                 [] outcome = "sent" ->
                       /\ event' = <<Event("POST", P_submit,
                                           stringify(parsed[1].question_id,
                                                     parsed[1].selected_answers))>>
                       /\ pc' = "l_secret" /\ UNCHANGED proxyResponse
    /\ UNCHANGED <<webFrame, conn, response, proxyRequest, database>>

\* POST of route.ts after the fetch: a response that is not ok is thrown
\* into the catch, otherwise its JSON is passed on
ProxyReturn ==
    /\ script = "api" /\ pc = "l_done" /\ proxyRequest # <<>>
    /\ proxyResponse' =
          <<IF response[1].statusCode \in 200..299
            THEN RouteResponse(200, response[1].error, response[1].result)
            ELSE RouteResponse(500, "Failed to submit answer", NoResult)>>
    /\ pc' = "p_done"
    /\ UNCHANGED <<webFrame, event, conn, response, proxyRequest, database>>

\* the catch block of the API handler
Respond500 == response' = <<Error500>> /\ pc' = "l_done"

\* sm.send(new GetSecretValueCommand(...)) and JSON.parse(sec.SecretString)
GetSecret ==
    /\ script = "api" /\ pc = "l_secret"
    /\ \E ok \in BOOLEAN :
          IF ok THEN pc' = "l_connect" /\ UNCHANGED response ELSE Respond500
    /\ UNCHANGED <<webFrame, event, conn, proxyRequest, proxyResponse, database>>

\* new Client(...) and await db.connect()
Connect ==
    /\ script = "api" /\ pc = "l_connect"
    /\ \E ok \in BOOLEAN :
          IF ok THEN conn' = "open" /\ pc' = "l_route" /\ UNCHANGED response
          ELSE Respond500 /\ UNCHANGED conn
    /\ UNCHANGED <<webFrame, event, proxyRequest, proxyResponse, database>>

\* event.httpMethod === 'GET' && event.path.includes('/survey/nist-csf')
routesToQuestion(e) == e.httpMethod = "GET" /\ includes(e.path, P_nist)

\* a submit route that does not look at the method
routesToSubmitAnyMethod(e) == includes(e.path, P_submit)

\* event.httpMethod === 'POST' && event.path.includes('/survey/submit')
routesToSubmit(e) == e.httpMethod = "POST" /\ includes(e.path, P_submit)

\* the routed operation, <<>> when it throws; a query may also fail for a
\* reason of its own
operationResult(e, db, queryOk) ==
    IF routesToQuestion(e) THEN (IF queryOk THEN getSurveyQuestion(db) ELSE <<>>)
    ELSE submitSurveyAnswer(e.body)

\* the if / else if / else of the handler, await db.end() and the 200
\* response; whatever throws is answered by the catch block
Route ==
    /\ script = "api" /\ pc = "l_route"
    /\ LET e == event[1] IN
       IF ~routesToQuestion(e) /\ ~routesToSubmit(e)
       THEN response' = <<NotFound404>> /\ pc' = "l_done" /\ UNCHANGED conn
       ELSE \E queryOk \in BOOLEAN, endOk \in BOOLEAN :
               LET result == operationResult(e, database, queryOk) IN
               IF result = <<>> THEN Respond500 /\ UNCHANGED conn
               ELSE IF ~endOk THEN Respond500 /\ UNCHANGED conn
               ELSE /\ conn' = "ended"
                    /\ response' = <<Ok200(result[1])>>
                    /\ pc' = "l_done"
    /\ UNCHANGED <<webFrame, event, proxyRequest, proxyResponse, database>>

NextApi ==
    \/ ProxyPost
    \/ GetSecret
    \/ Connect
    \/ Route
    \/ ProxyReturn

SpecApi == InitApi /\ [][NextApi]_vars

----------------------------------------------------------------------------
(* lambdas/seed.ts invoked several times in succession on one database *)

\* how many invocations follow one another
MaxInvocations == 3

\* where an invocation may fail for a reason outside the handler: reading
\* the secret, connecting, one of the four statements, closing
SeedFaults == {"none", "secret", "connect", "query1", "query2", "query3", "query4", "end"}

\* statements completed before the fault f strikes
completedBefore(f) ==
    CASE f \in {"secret", "connect"} -> 0
      [] f = "query1" -> 0
      [] f = "query2" -> 1
      [] f = "query3" -> 2
      [] f = "query4" -> 3
      [] OTHER -> 4

\* an insert that raises a unique violation when the key is taken
statementFailsOnDuplicate(db, n) ==
    \/ n = 2 /\ \E o \in db.rows : o.table = SurveyRow.table /\ o.key = SurveyRow.key
    \/ n = 3 /\ \E o \in db.rows : o.table = QuestionRow.table /\ o.key = QuestionRow.key
    \/ n = 4 /\ \E o \in db.rows, r \in AnswerRows : o.table = r.table /\ o.key = r.key

\* statement n raises an error of its own on database db: an insert into a
\* table that does not exist; a taken key is no error (on conflict do nothing)
statementFails(db, n) ==
    \/ n = 2 /\ SurveyRow.table \notin db.tables
    \/ n = 3 /\ QuestionRow.table \notin db.tables
    \/ n = 4 /\ \E r \in AnswerRows : r.table \notin db.tables

\* statements that complete on db when nothing outside the handler fails
completedOn(db) ==
    IF \E n \in 1..4 : statementFails(seedStatements(db, n - 1), n)
    THEN (CHOOSE n \in 1..4 :
             /\ statementFails(seedStatements(db, n - 1), n)
             /\ \A k \in 1..(n - 1) : ~statementFails(seedStatements(db, k - 1), k)) - 1
    ELSE 4

\* the handler has no try/catch: an error rejects the invocation, which API
\* Gateway answers with 502
InvocationError ==
    [statusCode |-> 502, headers |-> {}, error |-> "Internal server error", result |-> NoResult]

\* one invocation of the handler on database db under fault f: the database
\* it leaves, what the caller receives and what becomes of the connection
seedOutcome(db, f) ==
    LET own == completedOn(db)
        k == IF completedBefore(f) < own THEN completedBefore(f) ELSE own
        ok == f = "none" /\ own = 4 IN
    [database |-> seedStatements(db, k),
     response |-> IF ok THEN SeedResponse ELSE InvocationError,
     conn |-> IF f \in {"secret", "connect"} THEN "none"
              ELSE IF ok THEN "ended" ELSE "open"]

\* what the database may hold before the first invocation: nothing, a
\* partly or fully seeded schema, or rows of another origin
SeedDatabases ==
    Databases
    \cup {[tables |-> SeedTables, rows |-> R] : R \in SUBSET SeedRows}
    \cup {[tables |-> SeedTables,
           rows |-> R \cup {Row("questions_template", "id_am_01", "iso-27001", "other")}] :
             R \in SUBSET (SeedRows \ {QuestionRow})}

InitSeed ==
    /\ script = "seed"
    /\ pc = "invoke"
    /\ run = 1
    /\ previous = <<>>
    /\ cloud = StackIds
    /\ fault = NoFault
    /\ snapshot = <<>>
    /\ cacheFile = Absent
    /\ context = {}
    /\ NoEnvFiles
    /\ NoPromises
    /\ FreshRun
    /\ event = <<>> /\ conn = "none" /\ response = <<>>
    /\ proxyRequest = <<>> /\ proxyResponse = <<>>
    /\ database \in SeedDatabases

\* the handler of seed.ts, invoked for the run-th time; `previous` keeps
\* what the first successful invocation left in the database
SeedInvoke ==
    /\ script = "seed" /\ pc = "invoke"
    /\ run <= MaxInvocations
    /\ \E f \in SeedFaults :
          LET out == seedOutcome(database, f) IN
          /\ database' = out.database
          /\ response' = <<out.response>>
          /\ conn' = out.conn
          /\ previous' = IF previous = <<>> /\ out.response = SeedResponse
                         THEN <<out.database>> ELSE previous
    /\ run' = run + 1
    /\ UNCHANGED <<script, pc, cloud, fault, snapshot, cacheFile, inventory, publicIP, gap,
                   asked, answer, prompted, confirmed, vpcStrategy, context, synthI, synthOk,
                   seedI, seeded, log, sleeps, mutated, exitCode, envVars, fanVars,
                   event, proxyRequest, proxyResponse>>

NextSeed == SeedInvoke

SpecSeed == InitSeed /\ [][NextSeed]_vars

----------------------------------------------------------------------------
(* Properties of the collector *)

NoListFault(f) == [f EXCEPT !.listFail = {}]

\* C9: when the list call of one kind throws, collectInventory still
\* resolves, that kind's list is empty, every other kind's list is what it is
\* without that failure, and the cache file is written with the snapshot.
C9_PartialFailureIsolation ==
    script = "checkawsresources" =>
        /\ pc \in {"c_print", "c_write", "done"} => snapshot # <<>>
        /\ snapshot # <<>> =>
              LET unfailed == collectInventory(cloud, NoListFault(fault)) IN
              \A k \in KindSet :
                  snapshot[1][k] = IF k \in fault.listFail THEN <<>> ELSE unfailed[k]
        /\ (pc = "done" /\ ~fault.writeFail) =>
              /\ exitCode = 0
              /\ cacheFile = CacheOf(snapshot[1])

\* the VPC list call failed, yet the subnet owned by the marked VPC is in the
\* snapshot and in the file
C9_Witness ==
    /\ script = "checkawsresources" /\ pc = "done"
    /\ fault.listFail = {"vpcs"}
    /\ {14, 16} \subseteq cloud
    /\ cacheFile.state = "json"
    /\ cacheFile.inventory["vpcs"] = <<>>
    /\ cacheFile.inventory["subnets"] = <<16>>

RelationalKinds == {"subnets", "routeTables", "networkAcls", "natGateways", "ec2Instances"}

\* str holds the marker, compared letter by letter without regard to case
ContainsMarker(str) ==
    \E i \in 1..Len(str) :
        /\ i + Len(Marker) - 1 <= Len(str)
        /\ \A j \in 1..Len(Marker) : toLowerChar(str[i + j - 1]) = Marker[j]

MarkerInNameOrTags(r) ==
    \/ ContainsMarker(Universe[r].name)
    \/ ContainsMarker(Universe[r].ident)
    \/ \E i \in 1..Len(Universe[r].tags) :
          \/ ContainsMarker(Universe[r].tags[i].Key)
          \/ ContainsMarker(Universe[r].tags[i].Value)

OwnerVpc(r) ==
    IF Universe[r].vpc # 0 THEN Universe[r].vpc
    ELSE IF Universe[r].subnet # 0 THEN Universe[Universe[r].subnet].vpc
    ELSE 0

\* C10: every record retained in the snapshot carries the marker in its name
\* or in a tag, or (relational kinds) its owning VPC does.
C10_MarkerFilterInvariant ==
    (script = "checkawsresources" /\ snapshot # <<>>) =>
        \A k \in KindSet : \A i \in 1..Len(snapshot[1][k]) :
            LET r == snapshot[1][k][i] IN
                \/ MarkerInNameOrTags(r)
                \/ /\ k \in RelationalKinds
                   /\ OwnerVpc(r) # 0
                   /\ MarkerInNameOrTags(OwnerVpc(r))

----------------------------------------------------------------------------
(* Properties of the pipeline scripts *)

InLog(cmd) == \E i \in DOMAIN log : log[i] = cmd

Count(cmd) == Cardinality({i \in DOMAIN log : log[i] = cmd})

AnyMissing == \E i \in DOMAIN gap[1].existing : ~gap[1].existing[i].exists

\* C1: in deploy-infra, when a kind is missing and the operator has not
\* confirmed, nothing but the first collector run has been executed: no cdk
\* context, npm, cdk synth, cdk deploy or verification run, and no change to
\* the account; an empty line and NO are declined, and a declined run has
\* ended with exit code 0
C1_DeclineHaltsCleanly ==
    script \in DeployInfraScripts =>
        /\ (gap # <<>> /\ AnyMissing /\ ~confirmed) =>
              /\ log = <<C_collector>>
              /\ ~mutated
              /\ vpcStrategy = "unset"
              /\ synthI = 0
              /\ asked = "confirm" => (pc = "done" /\ exitCode = 0)
        /\ (asked = "confirm" /\ answer \in {<<>>, <<"N", "O">>}) =>
              (~confirmed /\ AnyMissing)

C1_Witness ==
    /\ script = "deployInfra"
    /\ gap # <<>> /\ AnyMissing
    /\ asked = "confirm" /\ answer = <<"N", "O">>
    /\ pc = "done" /\ exitCode = 0
    /\ log = <<C_collector>>

\* whether line is token with white space around it and letters in any case
IsTokenInAnyCaseWithinSpace(line, token) ==
    \E i \in 0..Len(line) :
        /\ i + Len(token) <= Len(line)
        /\ \A k \in 1..i : line[k] \in WhiteSpace
        /\ \A k \in 1..Len(token) : toLowerChar(line[i + k]) = toLowerChar(token[k])
        /\ \A k \in (i + Len(token) + 1)..Len(line) : line[k] \in WhiteSpace

\* whether line is token, letter for letter, in any case
IsTokenInAnyCase(line, token) ==
    /\ Len(line) = Len(token)
    /\ \A k \in 1..Len(token) : toLowerChar(line[k]) = toLowerChar(token[k])

C3_DestroyOnlyAfterDeleteAll ==
    script \in {"deleteInfra", "destroy"} =>
        /\ InLog("cdk destroy") => confirmed
        /\ (asked = "confirm" /\ confirmed) =>
              IsTokenInAnyCaseWithinSpace(answer, T_DELETE_ALL)
        /\ (asked = "confirm" /\ ~IsTokenInAnyCaseWithinSpace(answer, T_DELETE_ALL)) =>
              /\ pc = "done"
              /\ ~mutated
              /\ ~InLog("cdk destroy") /\ ~InLog("npm ci") /\ ~InLog("npm i")

\* the pauses that are not the seeding loop's
SynthPauses == SelectSeq(sleeps, LAMBDA ms : ms # 3000)

\* C4: cdk synth is attempted at most 3 times in a run; after each failed
\* attempt that another attempt follows there is one pause of 5000 ms and
\* none after the last; when an attempt succeeds the run goes on to cdk
\* deploy, after the third with exactly 2 pauses; when all 3 fail the run
\* has failed and cdk deploy is never run
C4_SynthRetryBound ==
    script \in SynthScripts =>
        /\ synthI <= 3
        /\ Count("cdk synth") = synthI
        /\ \A i \in DOMAIN SynthPauses : SynthPauses[i] = 5000
        /\ Len(SynthPauses) =
              IF synthOk \/ (synthI = 3 /\ pc = "done") THEN synthI - 1
              ELSE synthI
        /\ synthI = 0 => ~synthOk
        /\ synthOk => (pc = "deploy" \/ InLog("cdk deploy"))
        /\ ~synthOk => ~InLog("cdk deploy")
        /\ (synthI = 3 /\ ~synthOk) => (pc = "done" /\ exitCode = 1)
        /\ (pc = "synth" /\ synthI > 0) => ~synthOk

C4_Witness ==
    /\ script = "deployInfra"
    /\ synthI = 3 /\ synthOk
    /\ sleeps = <<5000, 5000>>
    /\ Count("cdk synth") = 3
    /\ InLog("cdk deploy")

\* C5: deploy-infra runs cdk deploy at most once and only after a synth
\* attempt has succeeded, delete-infra runs cdk destroy at most once; when
\* the command fails the run has ended with a failure, the command is the
\* last one run and the verifying collector run has not happened
C5_MutationAtMostOnce ==
    /\ script \in DeployInfraScripts =>
          /\ Count("cdk deploy") <= 1
          /\ InLog("cdk deploy") => synthOk
          /\ (InLog("cdk deploy") /\ ~mutated) =>
                /\ pc = "done" /\ exitCode = 1
                /\ log[Len(log)] = "cdk deploy"
                /\ Count(C_collector) = 1
    /\ script = "deleteInfra" =>
          /\ Count("cdk destroy") <= 1
          /\ (InLog("cdk destroy") /\ ~mutated) =>
                /\ pc = "done" /\ exitCode = 1
                /\ log[Len(log)] = "cdk destroy"
                /\ Count(C_collector) = 1

C5_Witness ==
    /\ script = "deployInfra"
    /\ synthOk /\ ~mutated
    /\ Count("cdk deploy") = 1
    /\ pc = "done" /\ exitCode = 1

\* the stage of deploy-infra a position of main() belongs to: COLLECT,
\* ANALYZE, CONFIRM, DEPLOY, VERIFY, END
StageOf(p) ==
    CASE p \in {"start", "collect", "load", "ip"} -> 1
      [] p = "analyze" -> 2
      [] p = "confirm" -> 3
      [] p \in {"strategy", "vpcid", "clear", "install", "synth", "deploy"} -> 4
      [] p = "verify" -> 5
      [] p = "done" -> 6

\* a step of a deploy-infra run that keeps to the order of the stages
ForwardStep ==
    script \in DeployInfraScripts =>
        /\ pc # "done"
        /\ StageOf(pc') >= StageOf(pc)
        /\ pc' = pc => (pc = "synth" /\ synthI' = synthI + 1 /\ synthI' < 3)
        /\ pc' = "confirm" => (pc = "analyze" /\ AnyMissing')
        /\ pc' = "verify" => pc = "deploy"
        /\ exitCode' = 1 => pc' = "done"
        /\ Count(C_collector)' <= 2
        /\ Count(C_collector)' > Count(C_collector) =>
              /\ pc \in {"collect", "verify"}
              /\ Count(C_collector)' = IF pc = "collect" THEN 1 ELSE 2

\* C6: a deploy-infra run only moves forward through COLLECT, ANALYZE,
\* CONFIRM (entered only when something is missing), DEPLOY, VERIFY, END;
\* the only position taken twice in succession is the synth attempt, at most
\* 3 times; nothing follows the end of the run, a failure ends it, and the
\* collector is run at most twice, in COLLECT and in VERIFY
C6_SinglePassForward == [][ForwardStep]_vars

C6_Witness ==
    /\ script = "deployInfra"
    /\ prompted /\ confirmed
    /\ Count(C_collector) = 2
    /\ log[Len(log)] = C_collector
    /\ pc = "done" /\ exitCode = 0

\* C7: deploy-infra has shown the confirmation prompt exactly when its gap
\* analysis found a kind missing; with nothing missing the run is past the
\* analysis without having asked, and with something missing no step of
\* DEPLOY is taken before the operator has confirmed
C7_PromptIffMissing ==
    script \in DeployInfraScripts =>
        /\ gap = <<>> => (~prompted /\ ~confirmed /\ StageOf(pc) \in {1, 2, 6})
        /\ gap # <<>> =>
              /\ gap[1].all <=> ~AnyMissing
              /\ prompted <=> AnyMissing
              /\ ~AnyMissing =>
                    /\ ~confirmed
                    /\ asked # "confirm"
                    /\ StageOf(pc) >= 4
              /\ (AnyMissing /\ (StageOf(pc) \in {4, 5} \/ Len(log) > 1)) => confirmed
        /\ Len(log) > 1 => gap # <<>>

C7_Witness ==
    /\ script = "deployInfraLegacy"
    /\ gap # <<>> /\ ~AnyMissing
    /\ ~prompted
    /\ InLog("cdk deploy")

\* C8: when a deploy-infra run has deployed successfully and the account is
\* as that run left it, the gap analysis of the next run, made on a complete
\* collection, finds nothing missing and the run does not prompt
C8_SecondRunFindsNothingMissing ==
    ( /\ script = "deployInfra"
      /\ run = 2
      /\ previous[1].exitCode = 0 /\ previous[1].deployed
      /\ cloud = previous[1].cloud
      /\ gap # <<>>
      /\ inventory = <<collectInventory(cloud, NoFault)>> ) =>
        (gap[1].all /\ ~AnyMissing /\ ~prompted)

----------------------------------------------------------------------------
(* Further properties of the collector *)

\* the owning VPC of child r exists and carries the marker
OwnerCarriesMarker(c, r) ==
    /\ OwnerVpc(r) # 0
    /\ OwnerVpc(r) \in c
    /\ MarkerInNameOrTags(OwnerVpc(r))

\* C11: of the listed subnets, route tables, network ACLs, NAT gateways and
\* instances, one that does not carry the marker itself is in the snapshot
\* exactly when its owning VPC carries the marker and its own lookup did not
\* fail; one that carries the marker is in the snapshot whatever lookup
\* failed, so a failed lookup costs the snapshot that one child only
C11_OneHopOwnership ==
    (script = "checkawsresources" /\ snapshot # <<>>) =>
        \A k \in RelationalKinds \ fault.listFail :
            \A r \in cloud :
                Universe[r].kind = k =>
                    ( InSeq(r, snapshot[1][k]) <=>
                        \/ MarkerInNameOrTags(r)
                        \/ (r \notin fault.lookupFail /\ OwnerCarriesMarker(cloud, r)) )

\* the lookup for subnet 16 failed: it is left out, and the later subnet 27
\* of the same marked VPC is kept
C11_Witness ==
    /\ script = "checkawsresources" /\ pc = "done"
    /\ fault.listFail = {} /\ fault.lookupFail = {16}
    /\ {14, 16, 27} \subseteq cloud
    /\ ~InSeq(16, snapshot[1]["subnets"])
    /\ InSeq(27, snapshot[1]["subnets"])


TagsCarryMarker(r) ==
    \E i \in 1..Len(Universe[r].tags) :
        \/ ContainsMarker(Universe[r].tags[i].Key)
        \/ ContainsMarker(Universe[r].tags[i].Value)

\* C12: a listed bucket is in the snapshot exactly when its name carries the
\* marker, or its tag lookup did not fail and its tags carry the marker; a
\* failed tag lookup leaves every other kind's list as it is without the
\* failure and the collector still ends with exit status 0
C12_BucketTagLookupDegrades ==
    (script = "checkawsresources" /\ snapshot # <<>>) =>
        /\ "s3Buckets" \notin fault.listFail =>
              \A r \in cloud :
                  Universe[r].kind = "s3Buckets" =>
                      ( InSeq(r, snapshot[1]["s3Buckets"]) <=>
                          \/ ContainsMarker(Universe[r].name)
                          \/ (r \notin fault.lookupFail /\ TagsCarryMarker(r)) )
        /\ (\E r \in fault.lookupFail : Universe[r].kind = "s3Buckets") =>
              /\ \A k \in KindSet \ {"s3Buckets"} :
                    snapshot[1][k] =
                        collectInventory(cloud, [fault EXCEPT !.lookupFail = {}])[k]
              /\ (pc = "done" /\ ~fault.writeFail) => exitCode = 0

\* the tag lookup for bucket 22 failed: it is left out, the buckets listed
\* before and after it are kept, and the file is written
C12_Witness ==
    /\ script = "checkawsresources" /\ pc = "done" /\ exitCode = 0
    /\ fault.lookupFail = {22}
    /\ {12, 22, 28} \subseteq cloud
    /\ cacheFile.state = "json"
    /\ cacheFile.inventory["s3Buckets"] = <<12, 28>>

----------------------------------------------------------------------------
(* Further properties of the pipeline scripts *)

\* C13: when the public address could not be determined (request error,
\* status other than 200, timeout), the deploy-infra run has ended with exit
\* status 1 without a gap analysis or a prompt, having run nothing but the
\* first collector, with the account unchanged and the cache file as the
\* collector wrote it, without the IP fields
C13_PublicIpFailureIsFatal ==
    (script \in DeployInfraScripts /\ publicIP \in {"request error", "HTTP status", "timeout"}) =>
        /\ pc = "done" /\ exitCode = 1
        /\ gap = <<>> /\ ~prompted /\ ~confirmed
        /\ log = <<C_collector>>
        /\ ~mutated
        /\ cacheFile.state = "json" /\ ~cacheFile.ip
        /\ cacheFile.inventory = inventory[1]

C13_Witness ==
    /\ script = "deployInfra"
    /\ publicIP = "timeout"
    /\ pc = "done" /\ exitCode = 1
    /\ StackIds \subseteq cloud
    /\ Len(inventory[1]["vpcs"]) > 0

\* the required kinds in the order deploy-infra enumerates them
RequiredKinds ==
    IF script = "deployInfra"
    THEN <<"vpc", "subnets", "publicSubnet", "privateSubnet", "internetGateway",
           "securityGroups", "rds", "rdsProxy", "ec2", "s3", "routeTables", "networkAcls">>
    ELSE <<"vpc", "subnets", "rds", "rdsProxy", "ec2", "s3", "routeTables", "networkAcls">>

\* the presence flag the report holds for a kind
Flag(report, kind) ==
    \E i \in DOMAIN report.existing :
        report.existing[i].key = kind /\ report.existing[i].exists

\* C14: the report of the gap analysis lists the required kinds in their
\* fixed order; its missing list is exactly the kinds whose flag is false,
\* in that order; all-present is true exactly when the missing list is
\* empty; an inventory without any resource has every required kind missing;
\* and the analysis made again on the same inventory gives the same report
C14_GapAnalysisDeterministic ==
    gap # <<>> =>
        /\ [i \in DOMAIN gap[1].existing |-> gap[1].existing[i].key] = RequiredKinds
        /\ gap[1].missing = SelectSeq(RequiredKinds, LAMBDA k : ~Flag(gap[1], k))
        /\ gap[1].all <=> (gap[1].missing = <<>>)
        /\ inventory[1] = EmptyInventory => gap[1].missing = RequiredKinds
        /\ previous # <<>> => gap[1] = previous[1]

\* the second analysis of an inventory that lacks only the instance
C14_Witness ==
    /\ script = "deployInfraLegacy"
    /\ run = 2 /\ gap # <<>> /\ previous # <<>>
    /\ gap[1].missing = <<"ec2">>
    /\ ~gap[1].all


\* the kinds the gap analysis marks as informational: the instance ("EC2 is
\* created manually") and the public and private subnet of a reused network
InformationalKinds == {"ec2", "publicSubnet", "privateSubnet"}

\* C15: the informational presence checks are not blocking: when every
\* kind the gap report finds missing is an informational one (no instance,
\* no public or private subnet), the report says all resources are present
\* and the creation confirmation is not asked.
C15_InformationalChecksDoNotBlock ==
    (/\ script \in DeployInfraScripts
     /\ gap # <<>>
     /\ \A i \in 1..Len(gap[1].missing) : gap[1].missing[i] \in InformationalKinds)
        => gap[1].all /\ ~prompted

----------------------------------------------------------------------------
(* Properties of the env-file generators *)

\* a generator run ends successfully in this step
GenerationSucceeds == exitCode = -1 /\ exitCode' = 0

EnvFileStep ==
    script \in EnvScripts =>
        IF GenerationSucceeds
        THEN /\ envFile' = envContent
             /\ envFile # <<>> => envBackup' = envFile
             /\ envFile = <<>> => envBackup' = envBackup
        ELSE pc # "save" => UNCHANGED <<envFile, envBackup>>

LastCommand(cmd) == log # <<>> /\ log[Len(log)] = cmd

\* the run ended while its only command so far was the first collector run
\* and nothing was loaded (deploy-infra), or before `cdk list` (delete-infra):
\* the collector failed in the first step or the inventory was unloadable
FatalInCollect ==
    /\ script \in InventoryScripts
    /\ log = <<C_collector>>
    /\ script \in DeployInfraScripts => inventory = <<>>

FatalPublicIP == script \in DeployInfraScripts /\ publicIP \notin {"unknown", "known"}

FatalSynth == script \in SynthScripts /\ synthI = synthAttempts /\ ~synthOk

\* the last command was cdk deploy or cdk destroy and it did not succeed
FatalMutation == (LastCommand("cdk deploy") \/ LastCommand("cdk destroy")) /\ ~mutated

\* after cdk deploy the cache still holds the address fields, which a
\* collector run would have overwritten: the verification run failed
FatalVerification == script \in DeployInfraScripts /\ mutated /\ cacheFile.ip

\* the line typed at the script's confirmation gate is not its token
Declined ==
    /\ asked = "confirm"
    /\ CASE script \in DeployInfraScripts -> ~confirmsCreation(answer)
         [] script = "deleteInfra" -> ~getUserConfirmation(answer)
         [] script = "destroy" -> ~inquirerConfirm(answer, FALSE)
         [] OTHER -> FALSE

\* C17: exit-status policy: a run that ended on a fatal condition (collector
\* failure in the first step or unloadable inventory, public-IP failure,
\* synth retries exhausted, cdk deploy or cdk destroy failure, verification
\* failure after deploy) ended with exit status 1; a run whose operator
\* declined at the confirmation gate ended with exit status 0, without a
\* cdk deploy or cdk destroy command and without a change to the account.
C17_ExitStatusPolicy ==
    /\ pc = "done" =>
          ((FatalInCollect \/ FatalPublicIP \/ FatalSynth \/ FatalMutation
              \/ FatalVerification) => exitCode = 1)
    /\ Declined =>
          /\ pc = "done" /\ exitCode = 0
          /\ ~mutated /\ ~InLog("cdk deploy") /\ ~InLog("cdk destroy")

\* deploy-infra whose verification run failed after a successful cdk deploy
C17_Witness ==
    /\ script = "deployInfra"
    /\ pc = "done" /\ exitCode = 1
    /\ mutated /\ cacheFile.ip
    /\ LastCommand(C_collector)

\* C18: in delete-infra, when the collector fails in the final verification
\* after a successful cdk destroy (the cache is not the one a collector run
\* writes for the account as it is now), the run has still ended with exit
\* status 0.
C18_FinalVerificationFailureIsBenign ==
    (/\ script = "deleteInfra"
     /\ pc = "done"
     /\ mutated
     /\ LastCommand(C_collector)) => exitCode = 0

\* the stale cache of the first step still lists the stack's VPC although
\* the stack is gone: the final collector run wrote nothing, exit status 0
C18_Witness ==
    /\ script = "deleteInfra"
    /\ pc = "done" /\ exitCode = 0
    /\ mutated
    /\ LastCommand(C_collector)
    /\ cloud \cap StackIds = {}
    /\ cacheFile.state = "json"
    /\ InSeq(1, cacheFile.inventory["vpcs"])

\* this step runs the collector as a child process
CollectorStep == log' = Append(log, C_collector)

CacheWrittenByCollectorOnly == cacheFile' # cacheFile => CollectorStep

\* C19 (as stated): the cache file is mutated only by the collector: every
\* step of a pipeline run that changes aws-inventory.json is a collector run.
C19_OnlyCollectorWritesCache == [][CacheWrittenByCollectorOnly]_vars

CacheWrittenByCollectorOrIpStage ==
    cacheFile' # cacheFile =>
        \/ CollectorStep
        \/ /\ script \in DeployInfraScripts /\ pc = "ip"
           /\ cacheFile.state = "json"
           /\ \/ /\ cacheFile'.state = "json"
                 /\ cacheFile'.inventory = cacheFile.inventory
                 /\ cacheFile'.ip
              \/ cacheFile' = Corrupt /\ exitCode' = 1

\* C19 (amended): every step that changes aws-inventory.json is a collector
\* run or the public-IP stage of deploy-infra, which rewrites the file with
\* the same per-kind lists and the address fields added (a rewrite that
\* fails may leave the file unparseable, and the run then ends with exit
\* status 1); every other stage only reads the file.
C19_CacheWrittenByCollectorAndIpStage == [][CacheWrittenByCollectorOrIpStage]_vars

\* the public-IP stage has rewritten the cache of the deployed stack: same
\* lists as loaded, address fields present
C19_Witness ==
    /\ script = "deployInfra"
    /\ pc = "analyze"
    /\ publicIP = "known"
    /\ cacheFile.state = "json" /\ cacheFile.ip
    /\ inventory = <<cacheFile.inventory>>
    /\ Len(cacheFile.inventory["vpcs"]) > 0

----------------------------------------------------------------------------
(* Properties of the collector's fan-out and fan-in *)

----------------------------------------------------------------------------
(* Properties of the API Lambda, the seed Lambda and the proxy route *)

\* the request body names a question and a non-empty list of answers
CarriesAnswers(b) ==
    /\ b.kind = "object"
    /\ truthy(b.question_id)
    /\ isArray(b.selected_answers) /\ b.selected_answers.n > 0

\* C21: POST /survey/submit acknowledges a submission only when the request
\* carries a question identifier and a non-empty list of selected answers:
\* at the Lambda handler a routed submit request without them is answered
\* with an error and no acknowledgment, and so is one at the proxy route.
C21_SubmitRequiresAnswers ==
    /\ (response # <<>> /\ routesToSubmit(event[1]) /\ ~CarriesAnswers(event[1].body)) =>
          /\ response[1].statusCode # 200
          /\ response[1].error # ""
          /\ response[1].result.op # "submitted"
    /\ (proxyResponse # <<>> /\ ~CarriesAnswers(proxyRequest[1])) =>
          /\ proxyResponse[1].status # 200
          /\ proxyResponse[1].error # ""
          /\ proxyResponse[1].result.op # "submitted"

\* the rows of table t
RowsOf(db, t) == {r \in db.rows : r.table = t}

\* C22: the seed handler is idempotent: once an invocation has succeeded,
\* every further invocation, failed or not, leaves the table contents as
\* that invocation left them; the three tables exist and hold the template
\* survey 'nist-csf-2024', the question 'id_am_01' and its two answer
\* options (and nothing else in a database that was empty before); and on
\* every database an invocation that meets no outside fault succeeds with
\* status 200 and {seeded: true}: rows that already exist are no error.
C22_SeedIdempotent ==
    script = "seed" =>
        /\ seedOutcome(database, "none").response = SeedResponse
        /\ previous # <<>> =>
              /\ database = previous[1]
              /\ seedOutcome(database, "none").database = database
              /\ SeedTables \subseteq database.tables
              /\ \A r \in SeedRows :
                    \E o \in database.rows : o.table = r.table /\ o.key = r.key
              /\ (\A o \in database.rows : o.content = "seed") =>
                    /\ RowsOf(database, "template_surveys") = {SurveyRow}
                    /\ RowsOf(database, "questions_template") = {QuestionRow}
                    /\ RowsOf(database, "answers_options_template") = AnswerRows

\* three invocations have been made, the last one succeeded and the
\* database holds exactly the seed rows
C22_Witness ==
    /\ script = "seed"
    /\ run = 4
    /\ previous # <<>>
    /\ response = <<SeedResponse>>
    /\ database = [tables |-> SeedTables, rows |-> SeedRows]

\* the handler answered because something threw: the secret, the connection,
\* a query, the body check or db.end
Threw(r) == r.statusCode = 500

\* C23: routing of the API Lambda: the response is 200 with the operation's
\* result exactly when the request is GET with '/survey/nist-csf' in the
\* path or POST with '/survey/submit' in the path and nothing threw; when
\* nothing threw, every other method and path is answered 404 'Endpoint not
\* found'; whatever throws is answered 500 'Internal server error'; the
\* three kinds of response carry the JSON content type and the CORS
\* allow-origin '*' header.
C23_ApiRouting ==
    (script = "api" /\ response # <<>>) =>
        LET e == event[1]
            r == response[1]
            routed == \/ e.httpMethod = "GET" /\ includes(e.path, P_nist)
                      \/ e.httpMethod = "POST" /\ includes(e.path, P_submit) IN
        /\ r.statusCode \in {200, 404, 500}
        /\ r.statusCode = 200 <=> (routed /\ ~Threw(r))
        /\ r.statusCode = 200 => (r.error = "" /\ r.result.op # "none")
        /\ r.statusCode = 404 <=> (~routed /\ ~Threw(r))
        /\ r.statusCode = 404 => (r.error = "Endpoint not found" /\ conn # "none")
        /\ r.statusCode = 500 => r.error = "Internal server error"
        /\ conn = "none" => r.statusCode = 500
        /\ (routed /\ e.httpMethod = "POST" /\ ~CarriesAnswers(e.body)
               /\ e.body.selected_answers # Js("array", 0)) => r.statusCode = 500
        /\ (routed /\ e.httpMethod = "GET" /\ getSurveyQuestion(database) = <<>>) =>
              r.statusCode = 500
        /\ {<<"content-type", "application/json">>, <<"access-control-allow-origin", "*">>}
              \subseteq r.headers

\* OPTIONS /survey/submit answered 404 over an open connection
C23_Witness ==
    /\ script = "api"
    /\ response # <<>> /\ response[1] = NotFound404
    /\ event[1].httpMethod = "OPTIONS" /\ event[1].path = P_submit

\* C24: connection release in the API Lambda: whenever the handler has
\* returned a response after db.connect succeeded, the connection has been
\* closed with db.end, on the 404 path and on the 500 paths too.
C24_ConnectionReleased ==
    (script = "api" /\ response # <<>>) => conn # "open"

----------------------------------------------------------------------------
(* Properties of the VPC strategy step of deploy-infra *)

ExistingVpcKeys == {"vpcStrategy", "existingVpcId"}

\* C25: VPC-strategy context consistency: once the strategy step of
\* deploy-infra is over, the CDK context holds both keys, and then the
\* operator chose EXISTING and both were set in this run, or neither key;
\* in particular vpcStrategy is never set without existingVpcId.
C25_VpcContextConsistent ==
    (script = "deployInfra" /\ vpcStrategy # "unset" /\ pc \notin {"vpcid", "clear"}) =>
        \/ context \cap ExistingVpcKeys = {}
        \/ /\ ExistingVpcKeys \subseteq context
           /\ vpcStrategy = "existing"
           /\ InLog(C_setStrategy) /\ InLog(C_setVpcId)

\* C26: VPC strategy prompt: existing-network mode is selected exactly when
\* the operator's answer, trimmed and in any letter case, is EXISTING; NEW
\* and every other answer, empty and mistyped ones included, select new-VPC
\* creation; the VPC id is asked for, and the existing-mode context
\* commands are run, in existing mode only.
C26_StrategyPrompt ==
    script = "deployInfra" =>
        /\ asked = "strategy" =>
              /\ vpcStrategy = "existing" <=> IsTokenInAnyCaseWithinSpace(answer, T_EXISTING)
              /\ vpcStrategy # "existing" => vpcStrategy = "new"
              /\ pc = "vpcid" <=> vpcStrategy = "existing"
              /\ pc # "vpcid" => pc = "clear"
        /\ (asked = "vpcid" \/ InLog(C_setStrategy) \/ InLog(C_setVpcId)) =>
              vpcStrategy = "existing"
        /\ (InLog(C_removeStrategy) \/ InLog(C_removeVpcId)) => vpcStrategy = "new"

\* "existing " in lower case with a trailing blank selects existing mode
C26_Witness ==
    /\ script = "deployInfra"
    /\ asked = "strategy"
    /\ answer = <<"e", "x", "i", "s", "t", "i", "n", "g", " ">>
    /\ vpcStrategy = "existing"
    /\ pc = "vpcid"

----------------------------------------------------------------------------
(* Further properties of the env-file generators *)

\* the loaded inventory lacks what the generator requires: an API gateway
\* for .env.local; an RDS proxy and a secret named ...db_secret... for .env
LacksRequired ==
    /\ inventory # <<>>
    /\ IF script = "generateEnv"
       THEN Len(inventory[1]["apiGateways"]) = 0
       ELSE \/ Len(inventory[1]["rdsProxies"]) = 0
            \/ \A i \in DOMAIN inventory[1]["secrets"] :
                  ~includes(Universe[inventory[1]["secrets"][i]].name, S_db_secret)

EnvFailureStep ==
    script \in EnvScripts =>
        /\ (pc = "generate" /\ LacksRequired) =>
              /\ pc' = "done" /\ exitCode' = 1
              /\ envContent' = <<>>
        /\ (pc # "save" \/ LacksRequired) => UNCHANGED <<envFile, envBackup>>

\* C27: env generation is all-or-nothing on error: when the inventory lacks
\* a required resource the generation step ends the run with exit status 1,
\* and no step of such a run, nor any step before the save, creates or
\* modifies the target env file or its .backup sibling.
C27_EnvGenerationAllOrNothing == [][EnvFailureStep]_vars

\* the lambda generator failed on an inventory with a proxy and no
\* db_secret, leaving a hand-written .env and no backup
C27_Witness ==
    /\ script = "generateLambdaEnv"
    /\ pc = "done" /\ exitCode = 1
    /\ LacksRequired
    /\ Len(inventory[1]["rdsProxies"]) > 0
    /\ envContent = <<>>
    /\ envFile = <<<<0>>>> /\ envBackup = <<>>

----------------------------------------------------------------------------
(* Properties of the collection and verification steps of deploy-infra *)

LoadStep ==
    script \in DeployInfraScripts =>
        /\ pc = "collect" =>
              \/ /\ pc' = "done" /\ exitCode' = 1
                 /\ cacheFile' = cacheFile
              \/ /\ pc' = "load"
                 /\ \E f \in ChildFaults : cacheFile' = CacheOf(collectInventory(cloud, f))
        /\ pc = "load" =>
              IF cacheFile.state = "json"
              THEN inventory' = <<cacheFile.inventory>> /\ pc' = "ip"
              ELSE pc' = "done" /\ exitCode' = 1
        /\ inventory' = <<>> =>
              /\ pc' \in {"start", "collect", "load", "done"}
              /\ pc' = "done" => exitCode' = 1
              /\ publicIP' = "unknown"
              /\ ~prompted'
              /\ gap' = <<>>
              /\ \A i \in DOMAIN log' : log'[i] = C_collector

\* C28: in deploy-infra a failed collector subprocess, or a cache file that
\* is absent or not parseable after the collection, ends the run with exit
\* status 1 before the public-IP lookup, before any prompt and before any
\* cdk command; a run without a loaded inventory computes no gap analysis,
\* and a collection that goes on has written its own snapshot to the file.
C28_CollectFailureIsFatal == [][LoadStep]_vars

\* the collector failed over a deployed stack while an older, parseable
\* cache file was present
C28_Witness ==
    /\ script = "deployInfra"
    /\ pc = "done" /\ exitCode = 1
    /\ log = <<C_collector>>
    /\ inventory = <<>>
    /\ cacheFile = CacheOf(EmptyInventory)
    /\ StackIds \subseteq cloud
    /\ publicIP = "unknown" /\ ~prompted /\ gap = <<>>

\* the file holds a snapshot of the account as it is, and nothing else
HoldsSnapshotOf(file, c) == \E f \in ChildFaults : file = CacheOf(collectInventory(c, f))

OverwriteStep ==
    script \in DeployInfraScripts =>
        /\ (pc \in {"collect", "verify"} /\ exitCode' # 1) =>
              /\ log' = Append(log, C_collector)
              /\ HoldsSnapshotOf(cacheFile', cloud)
              /\ ~cacheFile'.ip
        /\ (~cacheFile.ip /\ cacheFile'.ip) =>
              /\ pc = "ip" /\ publicIP' = "known"
              /\ cacheFile' = [cacheFile EXCEPT !.ip = TRUE]
        /\ (pc' = "done" /\ exitCode' = 0 /\ mutated') =>
              /\ pc = "verify"
              /\ cacheFile'.state = "json"
              /\ ~cacheFile'.ip
              /\ HoldsSnapshotOf(cacheFile', cloud')

\* C29: every collector run of deploy-infra that succeeds replaces the whole
\* cache file with the snapshot of that run and keeps nothing of what the
\* file held; developerPublicIP and lastIPUpdate enter the file only in the
\* public-IP step after COLLECT, and a run that deployed and ended with exit
\* status 0 leaves exactly the VERIFY snapshot, without those fields.
C29_CollectorOverwrites == [][OverwriteStep]_vars

\* a deploy-infra run that wrote the address fields, deployed over an empty
\* account and ended after VERIFY with the fields gone
C29_Witness ==
    /\ script = "deployInfra"
    /\ pc = "done" /\ exitCode = 0 /\ mutated
    /\ publicIP = "known"
    /\ Count(C_collector) = 2
    /\ inventory # <<>> /\ inventory[1] = EmptyInventory
    /\ cacheFile = CacheOf(collectInventory(cloud, NoFault))
    /\ cacheFile.inventory # EmptyInventory
    /\ ~cacheFile.ip

----------------------------------------------------------------------------
(* Properties of the seeding step of deploy.ts *)

C_seedPost == "curl POST seed"

SeedPauses == Cardinality({i \in DOMAIN sleeps : sleeps[i] = SeedRetryMs})

SeedRetryStep ==
    script = "deploy" =>
        /\ seedI' <= 5
        /\ Count(C_seedPost)' = seedI'
        /\ SeedPauses' = IF seeded' THEN seedI' - 1 ELSE seedI'
        /\ seeded' => pc' \in {"finish", "done"}
        /\ seedI' # seedI =>
              /\ pc = "seed" /\ ~seeded /\ seedI' = seedI + 1
              /\ pc' = IF seeded' \/ seedI' = 5 THEN "finish" ELSE "seed"
              /\ exitCode' = exitCode
        /\ pc = "finish" => pc' = "done" /\ exitCode' = 0
        /\ (pc' = "done" /\ seedI' > 0) => exitCode' = 0

\* C30: the seed POST of deploy.ts is attempted at most 5 times and not again
\* after the first attempt answered with 200 or 204, every failed attempt is
\* followed by one pause of 3000 ms, and a run whose 5 attempts all failed
\* still goes on to its end with exit status 0.
C30_SeedRetry == [][SeedRetryStep]_vars

\* all five attempts failed, five pauses were taken, the run ended with 0
C30_Witness ==
    /\ script = "deploy"
    /\ pc = "done" /\ exitCode = 0
    /\ seedI = 5 /\ ~seeded
    /\ Count(C_seedPost) = 5
    /\ SeedPauses = 5

\* the third attempt succeeded after two pauses
C30_WitnessStopsAtSuccess ==
    /\ script = "deploy" /\ pc = "done" /\ exitCode = 0
    /\ seeded /\ seedI = 3 /\ SeedPauses = 2
====
